---- MODULE Spec2Model ----
(***************************************************************************)
(* State-machine model of the LaneHarbor storage service's streaming       *)
(* transfer core.  Two implementations of StorageServiceImplementation     *)
(* exist in the repository:                                                *)
(*   - the GCS-backed service (storage.service.grpc.ts, here prefixed      *)
(*     grpc_ / g_), which buffers chunks in memory and stores them with    *)
(*     one uploadData call at completeUpload;                              *)
(*   - the S3/MinIO-backed service (storage.service.ts), which uploads     *)
(*     every chunk as a multipart part through S3StorageProvider.          *)
(* Each handler is one action; a handler that awaits a provider call is    *)
(* split at the await into the call and the provider's answer.             *)
(***************************************************************************)
EXTENDS Integers, Sequences, FiniteSets, TLC

\* ------------------------------------------------------------------ bounds
NumStreams == 2
MaxChunks == 2
MaxChunkNo == 2
MaxCalls == 2
MaxSubs == 1
MaxWrites == 3
MaxDownloads == 2
MaxClock == 1
MaxUpstreams == 2
MaxClients == 2
\* A WebSocket client sends no further request once it has received this many
\* messages.
MaxInbox == 3
\* the pongs of a WebSocket client that are counted
MaxPongs == 2
\* uploads one StorageClient has in flight
MaxClientUploads == 2

Streams == 1..NumStreams
Calls == 1..MaxCalls
Subs == 1..MaxSubs
Downloads == 1..MaxDownloads
\* The getUploadProgress calls the backend's StorageClient makes, numbered
\* after those of direct subscribers.
Upstreams == (MaxSubs + 1)..(MaxSubs + MaxUpstreams)
ListenerIds == Subs \cup Upstreams
Clients == 1..MaxClients
ClientUploads == 1..MaxClientUploads
ChunkNos == 1..MaxChunkNo

\* The upload ids a client can name: those the provider issues, in the order
\* it issues them, and one that is never issued.
UploadIdSeq == <<"u1">>
UploadIds == {UploadIdSeq[i] : i \in 1..Len(UploadIdSeq)} \cup {"ux"}
NoId == ""
\* The client's file is cut into pieces; the chunk numbered n carries piece n.
Data(n) == <<n>>
Payloads == {Data(n) : n \in ChunkNos}
FileSizes == {3}

\* ------------------------------------------------------------- pure helpers
RECURSIVE Sha256(_)
\* createHash('sha256').update(b).digest('hex'): deterministic and, on the
\* byte strings of the model (bytes 1..3), collision free; never empty.
Sha256(b) == IF b = <<>> THEN 1 ELSE Sha256(SubSeq(b, 1, Len(b) - 1)) * 4 + b[Len(b)]

NoDigest == 0

RECURSIVE Concat(_)
\* Buffer.concat(chunks) over the data of the buffered chunks, in array order.
Concat(chunks) == IF chunks = <<>> THEN <<>> ELSE chunks[1] \o Concat(Tail(chunks))

NoOp == [status |-> "none", bytesProcessed |-> 0, bytesTotal |-> 0]
Terminal(st) == st \in {"completed", "failed"}

\* ProgressTracker.startOperation
startOperation(ops, id, total) ==
  [ops EXCEPT ![id] = [status |-> "in_progress", bytesProcessed |-> 0, bytesTotal |-> total]]

\* ProgressTracker.updateOperation: no status check, the record is overwritten.
updateOperation(ops, id, bytes) ==
  IF ops[id] = NoOp THEN ops ELSE [ops EXCEPT ![id].bytesProcessed = bytes]

\* ProgressTracker.completeOperation
completeOperation(ops, id) ==
  IF ops[id] = NoOp THEN ops ELSE [ops EXCEPT ![id].status = "completed"]

\* ProgressTracker.failOperation
failOperation(ops, id) ==
  IF ops[id] = NoOp THEN ops ELSE [ops EXCEPT ![id].status = "failed"]

Snapshot(op) == [status |-> op.status, bytes |-> op.bytesProcessed]

\* ------------------------------------------------------------------- state
VARIABLES
  g_operations,     \* ProgressTracker.operations of the GCS service
  g_uploadBuffers,  \* uploadBuffers: upload id -> the stream whose chunks array it references (0: none)
  g_streams,        \* the locals of each uploadChunk call
  g_calls,          \* completeUpload calls
  g_bucket,         \* the GCS bucket: object key -> bytes (<<0>>: absent)
  g_issued,         \* how many upload ids initiateUpload has returned
  g_subs            \* getUploadProgress calls

gvars == <<g_operations, g_uploadBuffers, g_streams, g_calls, g_bucket, g_issued, g_subs>>

\* The state of the S3 / MinIO service.
VARIABLES
  operations,       \* ProgressTracker.operations
  cleanup,          \* pending setTimeout(() => operations.delete(id), 60000) per id
  listeners,        \* getUploadProgress calls: the 'progress' listeners and their streams
  uploadSessions,   \* S3StorageProvider.uploadSessions
  objects,          \* the bucket: object key -> bytes
  issued,           \* how many multipart upload ids the store has issued
  streams,          \* the locals of each uploadChunk call
  pending,          \* data handlers of uploadChunk suspended at an await
  aborts,           \* abortMultipartUpload requests in flight
  calls             \* completeUpload calls

svars == <<operations, cleanup, listeners, uploadSessions, objects, issued, streams,
           pending, aborts, calls>>

\* The download path of both services.
VARIABLES
  now,              \* Date.now() of the S3 service's process
  downloads,        \* initiateDownload calls of the S3 service
  g_downloads       \* initiateDownload calls of the GCS service

dvars == <<now, downloads, g_downloads>>

\* The backend: the StorageClient's progress emitters and the two WebSocket
\* services.
VARIABLES
  emitters,                 \* StorageClient.subscribeToUploadProgress: the EventEmitter of each call
  w_clients,                \* WebSocketService.clients (shared-emitter service)
  w_progressSubscriptions,  \* WebSocketService.progressSubscriptions: operation id -> emitter (0: none)
  clients                   \* WebSocketService.clients (heartbeat service)

wvars == <<emitters, w_clients, w_progressSubscriptions, clients>>

\* The backend's StorageClient as the emitter of its uploadChunks calls.
VARIABLES
  storageClient   \* calls: the uploadChunk calls made; listeners: the once-listeners on the client

cvars == <<storageClient>>
vars == <<gvars, svars, dvars, wvars, cvars>>

NoObject == <<0>>
NoStream == 0

IdleCall == [state |-> "idle", upload_id |-> NoId, final_sha256 |-> NoDigest,
             fileBuffer |-> <<>>, error |-> ""]
IdleSub == [state |-> "idle", op |-> NoId, written |-> <<>>]
NewStream == [state |-> "open", uploadId |-> NoId, chunks |-> <<>>, totalBytes |-> 0,
              chunkCount |-> 0, callbacks |-> 0]

\* `${params.appName}/${params.version}/${params.platform}/${params.filename}`,
\* the path GCSStorageProvider.initiateUpload derives from the request
ObjectPath == "a/1/p/f"
\* The object keys of the bucket: completeUpload stores under the upload id.
GKeys == UploadIds \cup {ObjectPath}

\* `download_${Date.now()}_${Math.random().toString(36).substring(2)}` of the
\* d-th initiateDownload call: the random suffix makes each one new.
GDownloadIdOf(d) == IF d = 1 THEN "d1" ELSE "d2"
GOpIds == UploadIds \cup {GDownloadIdOf(d) : d \in Downloads}

RECURSIVE SumCounts(_, _)
SumCounts(ss, n) == IF n = 0 THEN 0 ELSE ss[n].chunkCount + SumCounts(ss, n - 1)
\* The data events delivered so far, over all uploadChunk calls.
TotalChunks(ss) == SumCounts(ss, NumStreams)

GInit ==
  /\ g_operations = [u \in GOpIds |-> NoOp]
  /\ g_uploadBuffers = [u \in UploadIds |-> NoStream]
  /\ g_streams = [s \in Streams |-> NewStream]
  /\ g_calls = [c \in Calls |-> IdleCall]
  /\ g_bucket = [u \in GKeys |-> NoObject]
  /\ g_issued = 0
  /\ g_subs = [k \in Subs |-> IdleSub]

\* ------------------------------------------------- GCS service: upload path
\* initiateUpload: GCSStorageProvider.initiateUpload returns a new upload id
\* (time stamp and random suffix) and the operation's record is started.
grpc_initiateUpload(file_size) ==
  /\ g_issued < Len(UploadIdSeq)
  /\ LET id == UploadIdSeq[g_issued + 1] IN
       /\ g_operations' = startOperation(g_operations, id, file_size)
       /\ g_issued' = g_issued + 1
  /\ UNCHANGED <<g_uploadBuffers, g_streams, g_calls, g_bucket, g_subs>>
  /\ UNCHANGED <<svars, dvars>>
  /\ UNCHANGED wvars
  /\ UNCHANGED cvars

\* uploadChunk, call.on('data'): chunk.data is a protobuf bytes field, so
\* Buffer.isBuffer(chunk.data) holds for every message a client can send.
grpc_uploadChunk_data(s, chunk) ==
  /\ g_streams[s].state = "open"
  /\ \A r \in 1..(s - 1) : g_streams[r].chunkCount > 0   \* calls take the stream slots in order
  /\ TotalChunks(g_streams) < MaxChunks
  /\ LET st == g_streams[s]
         uploadId == IF st.uploadId = NoId /\ chunk.upload_id # NoId
                     THEN chunk.upload_id ELSE st.uploadId
         totalBytes == st.totalBytes + Len(chunk.data)
         final == chunk.is_final /\ uploadId # NoId
     IN
       /\ g_streams' = [g_streams EXCEPT ![s] =
            [st EXCEPT !.uploadId = uploadId,
                       !.chunks = Append(st.chunks, chunk.data),
                       !.totalBytes = totalBytes,
                       !.chunkCount = st.chunkCount + 1,
                       !.callbacks = IF final THEN st.callbacks + 1 ELSE st.callbacks]]
       /\ g_operations' = IF uploadId # NoId
                          THEN updateOperation(g_operations, uploadId, totalBytes)
                          ELSE g_operations
       /\ g_uploadBuffers' = IF final THEN [g_uploadBuffers EXCEPT ![uploadId] = s]
                             ELSE g_uploadBuffers
  /\ UNCHANGED <<g_calls, g_bucket, g_issued, g_subs>>
  /\ UNCHANGED <<svars, dvars>>
  /\ UNCHANGED wvars
  /\ UNCHANGED cvars

\* uploadChunk, call.on('end'): only logs.
grpc_uploadChunk_end(s) ==
  /\ g_streams[s].state = "open"
  /\ g_streams' = [g_streams EXCEPT ![s].state = "ended"]
  /\ UNCHANGED <<g_operations, g_uploadBuffers, g_calls, g_bucket, g_issued, g_subs>>
  /\ UNCHANGED <<svars, dvars>>
  /\ UNCHANGED wvars
  /\ UNCHANGED cvars

\* uploadChunk, call.on('error')
grpc_uploadChunk_error(s) ==
  /\ g_streams[s].state = "open"
  /\ g_streams' = [g_streams EXCEPT ![s].state = "error",
                                    ![s].callbacks = g_streams[s].callbacks + 1]
  /\ g_operations' = IF g_streams[s].uploadId # NoId
                     THEN failOperation(g_operations, g_streams[s].uploadId)
                     ELSE g_operations
  /\ UNCHANGED <<g_uploadBuffers, g_calls, g_bucket, g_issued, g_subs>>
  /\ UNCHANGED <<svars, dvars>>
  /\ UNCHANGED wvars
  /\ UNCHANGED cvars

\* The digests a client may send as final_sha256: none, or the digest of some
\* byte string it could have uploaded.
DigestInputs == {NoDigest, Sha256(Data(1))}

FirstIdleCall(cs) == CHOOSE c \in Calls : cs[c].state = "idle" /\ \A d \in 1..(c - 1) : cs[d].state # "idle"

\* completeUpload up to `await this.storage.uploadData`: the buffered chunks
\* are looked up and concatenated, the digest is compared, and either the call
\* throws into the catch (callback with code 13) or uploadData is started.
grpc_completeUpload(upload_id, final_sha256) ==
  /\ \E c \in Calls : g_calls[c].state = "idle"
  /\ LET c == FirstIdleCall(g_calls)
         s == g_uploadBuffers[upload_id]
         fileBuffer == IF s = NoStream THEN <<>> ELSE Concat(g_streams[s].chunks)
         err == IF s = NoStream THEN "Upload chunks not found"
                ELSE IF final_sha256 # NoDigest /\ Sha256(fileBuffer) # final_sha256
                     THEN "SHA256 mismatch"
                     ELSE ""
     IN
       /\ g_calls' = [g_calls EXCEPT ![c] =
            [state |-> IF err = "" THEN "uploading" ELSE "done",
             upload_id |-> upload_id,
             final_sha256 |-> IF err = "" THEN final_sha256 ELSE NoDigest,
             fileBuffer |-> IF err = "" THEN fileBuffer ELSE <<>>,
             error |-> err]]
  /\ UNCHANGED <<g_operations, g_uploadBuffers, g_streams, g_bucket, g_issued, g_subs>>
  /\ UNCHANGED <<svars, dvars>>
  /\ UNCHANGED wvars
  /\ UNCHANGED cvars

\* GCSStorageProvider.uploadData succeeded: file.save stored the object, the
\* buffer entry is deleted, the operation completed and the callback answered.
grpc_completeUpload_uploaded(c) ==
  /\ g_calls[c].state = "uploading"
  /\ LET id == g_calls[c].upload_id IN
       /\ g_bucket' = [g_bucket EXCEPT ![id] = g_calls[c].fileBuffer]
       /\ g_uploadBuffers' = [g_uploadBuffers EXCEPT ![id] = NoStream]
       /\ g_operations' = completeOperation(g_operations, id)
  /\ g_calls' = [g_calls EXCEPT ![c].state = "done", ![c].fileBuffer = <<>>,
                                ![c].final_sha256 = NoDigest]
  /\ UNCHANGED <<g_streams, g_issued, g_subs>>
  /\ UNCHANGED <<svars, dvars>>
  /\ UNCHANGED wvars
  /\ UNCHANGED cvars

\* GCSStorageProvider.uploadData threw: either file.save failed (nothing is
\* stored) or file.getMetadata failed after the save (the object is stored).
\* The catch of completeUpload only answers the callback with the error.
grpc_completeUpload_failed(c, saved) ==
  /\ g_calls[c].state = "uploading"
  /\ g_bucket' = IF saved THEN [g_bucket EXCEPT ![g_calls[c].upload_id] = g_calls[c].fileBuffer]
                 ELSE g_bucket
  /\ g_calls' = [g_calls EXCEPT ![c].state = "done", ![c].error = "Upload failed",
                                ![c].fileBuffer = <<>>, ![c].final_sha256 = NoDigest]
  /\ UNCHANGED <<g_operations, g_uploadBuffers, g_streams, g_issued, g_subs>>
  /\ UNCHANGED <<svars, dvars>>
  /\ UNCHANGED wvars
  /\ UNCHANGED cvars

\* ----------------------------------------------- GCS service: progress path
\* sendProgress of getUploadProgress: the record is read; if there is one a
\* snapshot is written and, when it is terminal, the call is ended and the
\* polling stops; otherwise the next poll is scheduled with setTimeout.
grpc_sendProgressTo(sub) ==
  LET op == g_operations[sub.op] IN
    IF op = NoOp THEN [sub EXCEPT !.state = "polling"]
    ELSE [sub EXCEPT !.written = Append(sub.written, Snapshot(op)),
                     !.state = IF Terminal(op.status) THEN "ended" ELSE "polling"]

\* getUploadProgress / getDownloadProgress: the first sendProgress runs at once.
grpc_getUploadProgress(k, operation_id) ==
  /\ g_subs[k].state = "idle"
  /\ g_subs' = [g_subs EXCEPT ![k] = grpc_sendProgressTo([IdleSub EXCEPT !.op = operation_id])]
  /\ UNCHANGED <<g_operations, g_uploadBuffers, g_streams, g_calls, g_bucket, g_issued>>
  /\ UNCHANGED <<svars, dvars>>
  /\ UNCHANGED wvars
  /\ UNCHANGED cvars

\* The 500 ms timer of a polling subscriber fires.
grpc_sendProgress(k) ==
  /\ g_subs[k].state = "polling"
  /\ Len(g_subs[k].written) < MaxWrites
  /\ g_subs' = [g_subs EXCEPT ![k] = grpc_sendProgressTo(g_subs[k])]
  /\ UNCHANGED <<g_operations, g_uploadBuffers, g_streams, g_calls, g_bucket, g_issued>>
  /\ UNCHANGED <<svars, dvars>>
  /\ UNCHANGED wvars
  /\ UNCHANGED cvars

\* The upload ids a client can name when n ids have been issued: an upload id
\* is made by the store, so a client learns it from initiateUpload's answer.
KnownIds(n) == {UploadIdSeq[i] : i \in 1..n} \cup {"ux"}
\* The chunk messages such a client can send.
Chunks(n) == {[upload_id |-> u, chunk_number |-> k, data |-> Data(k), is_final |-> f] :
                u \in KnownIds(n) \cup {NoId}, k \in ChunkNos, f \in BOOLEAN}

GNext ==
  \/ \E fs \in FileSizes : grpc_initiateUpload(fs)
  \/ \E s \in Streams, chunk \in Chunks(g_issued) : grpc_uploadChunk_data(s, chunk)
  \/ \E s \in Streams : grpc_uploadChunk_end(s)
  \/ \E s \in Streams : grpc_uploadChunk_error(s)
  \/ \E u \in KnownIds(g_issued), d \in DigestInputs : grpc_completeUpload(u, d)
  \/ \E c \in Calls : grpc_completeUpload_uploaded(c)
  \/ \E c \in Calls, saved \in BOOLEAN : grpc_completeUpload_failed(c, saved)

GProgressNext ==
  \/ \E k \in Subs, u \in KnownIds(g_issued) : grpc_getUploadProgress(k, u)
  \/ \E k \in Subs : grpc_sendProgress(k)

\* ======================================================= S3 / MinIO service
\* 5 * 1024 * 1024, the multipart threshold of initiateUpload
MultipartThreshold == 5242880
S3FileSizes == {MultipartThreshold, MultipartThreshold + 1}
\* `direct-${Date.now()}`
DirectId == "direct-0"
\* `direct-${Date.now()}` and `download-${Date.now()}` at clock value t
DirectIdAt(t) == IF t = 0 THEN DirectId ELSE "direct-1"
DownloadIdAt(t) == IF t = 0 THEN "download-0" ELSE "download-1"
OpIds == UploadIds \cup {DirectIdAt(t) : t \in 0..MaxClock} \cup {DownloadIdAt(t) : t \in 0..MaxClock}
Keys == {"apps/a/1/p/f"}
\* S3StorageProvider.generateKey
generateKey == "apps/a/1/p/f"

NoSession == [key |-> "", parts |-> <<>>, bytesUploaded |-> -1]
NewS3Stream == [state |-> "open", uploadId |-> NoId, partNumber |-> 0,
                totalBytesReceived |-> 0, parts |-> <<>>, callbacks |-> 0]
IdleListener == [state |-> "idle", op |-> NoId, written |-> <<>>, endedAt |-> 0]
IdleS3Call == [state |-> "idle", upload_id |-> NoId, final_sha256 |-> NoDigest,
               parts |-> <<>>, error |-> ""]

SInit ==
  /\ operations = [u \in OpIds |-> NoOp]
  /\ cleanup = [u \in OpIds |-> 0]
  /\ listeners = [k \in ListenerIds |-> IdleListener]
  /\ uploadSessions = [u \in UploadIds |-> NoSession]
  /\ objects = [k \in Keys |-> NoObject]
  /\ issued = 0
  /\ streams = [s \in Streams |-> NewS3Stream]
  /\ pending = {}
  /\ aborts = {}
  /\ calls = [c \in Calls |-> IdleS3Call]

\* ---- ProgressTracker (EventEmitter): T is [ops, subs, timers]
\* sendProgress of getUploadProgress: the snapshot is written to the call and
\* a terminal snapshot ends the call; the listener stays registered.
sendProgress(sub, op) ==
  [sub EXCEPT !.written = Append(sub.written, Snapshot(op)),
              !.endedAt = IF Terminal(op.status) /\ sub.endedAt = 0
                          THEN Len(sub.written) + 1 ELSE sub.endedAt]

\* An emit that stops after the first listener registered for the operation.
emit_first(subs, id, op) ==
  LET on == {k \in ListenerIds : subs[k].state = "listening" /\ subs[k].op = id} IN
  [k \in ListenerIds |-> IF k \in on /\ \A j \in on : k <= j
                         THEN sendProgress(subs[k], op) ELSE subs[k]]

\* this.emit('progress', operationId, op): every registered listener runs.
emit(subs, id, op) ==
  [k \in ListenerIds |-> IF subs[k].state = "listening" /\ subs[k].op = id
                  THEN sendProgress(subs[k], op) ELSE subs[k]]

\* ProgressTracker.updateProgress
updateProgress(T, id, bytes) ==
  IF T.ops[id] = NoOp THEN T
  ELSE LET op == [T.ops[id] EXCEPT !.bytesProcessed = bytes] IN
       [T EXCEPT !.ops[id] = op, !.subs = emit(T.subs, id, op)]

\* ProgressTracker.completeOperation (S3 service): the record is marked, the
\* snapshot emitted and the record's deletion scheduled.
completeOperationS3(T, id) ==
  IF T.ops[id] = NoOp THEN T
  ELSE LET op == [T.ops[id] EXCEPT !.status = "completed"] IN
       [T EXCEPT !.ops[id] = op, !.subs = emit(T.subs, id, op),
                 !.timers[id] = T.timers[id] + 1]

\* ProgressTracker.failOperation (S3 service): no deletion is scheduled.
failOperationS3(T, id) ==
  IF T.ops[id] = NoOp THEN T
  ELSE LET op == [T.ops[id] EXCEPT !.status = "failed"] IN
       [T EXCEPT !.ops[id] = op, !.subs = emit(T.subs, id, op)]

Tracker == [ops |-> operations, subs |-> listeners, timers |-> cleanup]
SetTracker(T) ==
  /\ operations' = T.ops
  /\ listeners' = T.subs
  /\ cleanup' = T.timers

\* ---- S3StorageProvider
RECURSIVE SortParts(_)
\* session.parts.sort((a, b) => a.PartNumber - b.PartNumber), a stable sort
SortParts(parts) ==
  IF parts = <<>> THEN <<>>
  ELSE LET m == CHOOSE i \in 1..Len(parts) :
                  \A j \in 1..Len(parts) :
                     \/ parts[i].PartNumber < parts[j].PartNumber
                     \/ (parts[i].PartNumber = parts[j].PartNumber /\ i <= j)
           rest == [k \in 1..(Len(parts) - 1) |-> IF k < m THEN parts[k] ELSE parts[k + 1]]
       IN <<parts[m]>> \o SortParts(rest)

RECURSIVE ConcatParts(_)
\* The object the store assembles from the listed parts, in list order.
ConcatParts(parts) == IF parts = <<>> THEN <<>> ELSE parts[1].data \o ConcatParts(Tail(parts))

\* CompleteMultipartUploadCommand is answered with an error for an empty part
\* list and for one that is not in strictly ascending PartNumber order.
ValidParts(parts) ==
  /\ Len(parts) > 0
  /\ \A i \in 1..(Len(parts) - 1) : parts[i].PartNumber < parts[i + 1].PartNumber

HasSession(id) == id \in UploadIds /\ uploadSessions[id] # NoSession

\* The InitiateUploadRequest messages a client can send: file_size left out,
\* zero, at the threshold and one byte above it.
InitiateRequests ==
  {[filename |-> "f"]} \cup
  {[filename |-> "f", file_size |-> n] : n \in {0, MultipartThreshold, MultipartThreshold + 1}}
\* protoLoader.loadSync(..., {defaults: true}): a field left out of the
\* message is delivered with its default value; the handler then compares the
\* decoded value as a number.
Defaults(request) == IF "file_size" \in DOMAIN request THEN request.file_size ELSE 0

\* initiateUpload taking the multipart branch at the threshold as well.
initiateUpload_atThreshold(file_size) ==
  /\ IF file_size >= MultipartThreshold
     THEN /\ issued < Len(UploadIdSeq)
          /\ LET id == UploadIdSeq[issued + 1] IN
               /\ uploadSessions' = [uploadSessions EXCEPT ![id] =
                    [key |-> generateKey, parts |-> <<>>, bytesUploaded |-> 0]]
               /\ operations' = startOperation(operations, id, file_size)
          /\ issued' = issued + 1
     ELSE /\ operations' = startOperation(operations, DirectIdAt(now), file_size)
          /\ UNCHANGED <<uploadSessions, issued>>
  /\ UNCHANGED <<cleanup, listeners, objects, streams, pending, aborts, calls>>
  /\ UNCHANGED <<gvars, dvars>>
  /\ UNCHANGED wvars
  /\ UNCHANGED cvars

\* ---- StorageServiceImplementation (S3 service): upload path
\* initiateUpload: above the threshold a multipart upload is created at the
\* provider (its session stored) and the operation started under the store's
\* upload id; otherwise a presigned URL is made and the operation started
\* under `direct-${Date.now()}`.
initiateUpload(file_size) ==
  /\ IF file_size > MultipartThreshold
     THEN /\ issued < Len(UploadIdSeq)
          /\ LET id == UploadIdSeq[issued + 1] IN
               /\ uploadSessions' = [uploadSessions EXCEPT ![id] =
                    [key |-> generateKey, parts |-> <<>>, bytesUploaded |-> 0]]
               /\ operations' = startOperation(operations, id, file_size)
          /\ issued' = issued + 1
     ELSE /\ operations' = startOperation(operations, DirectIdAt(now), file_size)
          /\ UNCHANGED <<uploadSessions, issued>>
  /\ UNCHANGED <<cleanup, listeners, objects, streams, pending, aborts, calls>>
  /\ UNCHANGED <<gvars, dvars>>
  /\ UNCHANGED wvars
  /\ UNCHANGED cvars

NewPending(s, partNumber, chunk) ==
  [s |-> s, partNumber |-> partNumber, data |-> chunk.data, is_final |-> chunk.is_final,
   stage |-> "uploadPart", list |-> <<>>]

\* uploadChunk, call.on('data') up to `await this.storage.uploadPart`: the
\* stream's counters advance, then uploadPart looks the session up and either
\* throws (the handler's catch fails the operation) or sends UploadPartCommand.
uploadChunk_data(s, chunk) ==
  /\ streams[s].state = "open"
  /\ TotalChunks([r \in Streams |-> [chunkCount |-> streams[r].partNumber]]) < MaxChunks
  /\ \A r \in 1..(s - 1) : streams[r].partNumber > 0   \* calls take the stream slots in order
  /\ LET st == streams[s]
         uploadId == IF st.uploadId = NoId THEN chunk.upload_id ELSE st.uploadId
         partNumber == st.partNumber + 1
     IN
       /\ streams' = [streams EXCEPT ![s] =
            [st EXCEPT !.uploadId = uploadId, !.partNumber = partNumber,
                       !.totalBytesReceived = st.totalBytesReceived + Len(chunk.data)]]
       /\ IF HasSession(uploadId)
          THEN /\ pending' = pending \cup {NewPending(s, partNumber, chunk)}
               /\ UNCHANGED <<operations, listeners, cleanup>>
          ELSE /\ SetTracker(IF uploadId # NoId THEN failOperationS3(Tracker, uploadId) ELSE Tracker)
               /\ UNCHANGED pending
  /\ UNCHANGED <<uploadSessions, objects, issued, aborts, calls>>
  /\ UNCHANGED <<gvars, dvars>>
  /\ UNCHANGED wvars
  /\ UNCHANGED cvars

\* UploadPartCommand answered with an ETag: the part is recorded in the
\* session and in the stream, progress is published, and for the is_final
\* chunk the helper completeMultipartUpload sorts the session's parts and
\* sends CompleteMultipartUploadCommand.
uploadPart_ok(p) ==
  /\ p \in pending /\ p.stage = "uploadPart"
  /\ HasSession(streams[p.s].uploadId)
  /\ LET id == streams[p.s].uploadId
         sess == uploadSessions[id]
         parts == Append(sess.parts, [PartNumber |-> p.partNumber, data |-> p.data])
         sorted == IF p.is_final THEN SortParts(parts) ELSE parts
     IN
       /\ uploadSessions' = [uploadSessions EXCEPT ![id] =
            [sess EXCEPT !.parts = sorted, !.bytesUploaded = sess.bytesUploaded + Len(p.data)]]
       /\ streams' = [streams EXCEPT ![p.s].parts = Append(streams[p.s].parts, p.partNumber)]
       /\ SetTracker(updateProgress(Tracker, id, streams[p.s].totalBytesReceived))
       /\ pending' = (pending \ {p}) \cup
                     (IF p.is_final THEN {[p EXCEPT !.stage = "complete", !.list = sorted]} ELSE {})
  /\ UNCHANGED <<objects, issued, aborts, calls>>
  /\ UNCHANGED <<gvars, dvars>>
  /\ UNCHANGED wvars
  /\ UNCHANGED cvars

\* UploadPartCommand failed (or came back without an ETag): the catch of the
\* data handler fails the operation; the stream goes on.
uploadPart_failed(p) ==
  /\ p \in pending /\ p.stage = "uploadPart"
  /\ SetTracker(failOperationS3(Tracker, streams[p.s].uploadId))
  /\ pending' = pending \ {p}
  /\ UNCHANGED <<uploadSessions, objects, issued, streams, aborts, calls>>
  /\ UNCHANGED <<gvars, dvars>>
  /\ UNCHANGED wvars
  /\ UNCHANGED cvars

\* The helper's CompleteMultipartUploadCommand succeeded: the object exists,
\* the session is deleted and the operation completed.
completeMultipartUpload_ok(p) ==
  /\ p \in pending /\ p.stage = "complete"
  /\ HasSession(streams[p.s].uploadId)
  /\ ValidParts(p.list)
  /\ LET id == streams[p.s].uploadId IN
       /\ objects' = [objects EXCEPT ![uploadSessions[id].key] = ConcatParts(p.list)]
       /\ uploadSessions' = [uploadSessions EXCEPT ![id] = NoSession]
       /\ SetTracker(completeOperationS3(Tracker, id))
  /\ pending' = pending \ {p}
  /\ UNCHANGED <<issued, streams, aborts, calls>>
  /\ UNCHANGED <<gvars, dvars>>
  /\ UNCHANGED wvars
  /\ UNCHANGED cvars

\* The helper's CompleteMultipartUploadCommand failed: the helper's catch fails
\* the operation and rethrows, and the data handler's catch fails it again.
completeMultipartUpload_failed(p) ==
  /\ p \in pending /\ p.stage = "complete"
  /\ SetTracker(failOperationS3(failOperationS3(Tracker, streams[p.s].uploadId),
                                streams[p.s].uploadId))
  /\ pending' = pending \ {p}
  /\ UNCHANGED <<uploadSessions, objects, issued, streams, aborts, calls>>
  /\ UNCHANGED <<gvars, dvars>>
  /\ UNCHANGED wvars
  /\ UNCHANGED cvars

\* uploadChunk, call.on('end'): the callback is answered (with the summary
\* when an upload id was seen, with an error otherwise).
uploadChunk_end(s) ==
  /\ streams[s].state = "open"
  /\ streams' = [streams EXCEPT ![s].state = "ended", ![s].callbacks = streams[s].callbacks + 1]
  /\ UNCHANGED <<operations, cleanup, listeners, uploadSessions, objects, issued, pending,
                 aborts, calls>>
  /\ UNCHANGED <<gvars, dvars>>
  /\ UNCHANGED wvars
  /\ UNCHANGED cvars

\* uploadChunk, call.on('error'): the operation is failed, abortMultipartUpload
\* is started (it sends AbortMultipartUploadCommand when the session exists)
\* and the callback is answered with the error.
uploadChunk_error(s) ==
  /\ streams[s].state = "open"
  /\ LET id == streams[s].uploadId IN
       /\ SetTracker(IF id # NoId THEN failOperationS3(Tracker, id) ELSE Tracker)
       /\ aborts' = IF HasSession(id) THEN aborts \cup {id} ELSE aborts
  /\ streams' = [streams EXCEPT ![s].state = "error", ![s].callbacks = streams[s].callbacks + 1]
  /\ UNCHANGED <<uploadSessions, objects, issued, pending, calls>>
  /\ UNCHANGED <<gvars, dvars>>
  /\ UNCHANGED wvars
  /\ UNCHANGED cvars

\* AbortMultipartUploadCommand succeeded: the session is deleted.
abortMultipartUpload_ok(id) ==
  /\ id \in aborts
  /\ HasSession(id)
  /\ uploadSessions' = [uploadSessions EXCEPT ![id] = NoSession]
  /\ aborts' = aborts \ {id}
  /\ UNCHANGED <<operations, cleanup, listeners, objects, issued, streams, pending, calls>>
  /\ UNCHANGED <<gvars, dvars>>
  /\ UNCHANGED wvars
  /\ UNCHANGED cvars

\* AbortMultipartUploadCommand failed: the rejection is logged.
abortMultipartUpload_failed(id) ==
  /\ id \in aborts
  /\ aborts' = aborts \ {id}
  /\ UNCHANGED <<operations, cleanup, listeners, uploadSessions, objects, issued, streams,
                 pending, calls>>
  /\ UNCHANGED <<gvars, dvars>>
  /\ UNCHANGED wvars
  /\ UNCHANGED cvars

\* completeUpload up to `await this.storage.completeMultipartUpload`: without
\* a session the provider throws and the catch answers the callback with the
\* error; otherwise the parts are sorted and the command is sent.  The
\* request's final_sha256 is only echoed in the answer's metadata.
completeUpload(upload_id, final_sha256) ==
  /\ \E c \in Calls : calls[c].state = "idle"
  /\ LET c == FirstIdleCall(calls) IN
       IF HasSession(upload_id)
       THEN LET sorted == SortParts(uploadSessions[upload_id].parts) IN
            /\ uploadSessions' = [uploadSessions EXCEPT ![upload_id].parts = sorted]
            /\ calls' = [calls EXCEPT ![c] =
                 [state |-> "completing", upload_id |-> upload_id,
                  final_sha256 |-> final_sha256, parts |-> sorted, error |-> ""]]
       ELSE /\ calls' = [calls EXCEPT ![c] =
                 [IdleS3Call EXCEPT !.state = "done", !.error = "Upload session not found"]]
            /\ UNCHANGED uploadSessions
  /\ UNCHANGED <<operations, cleanup, listeners, objects, issued, streams, pending, aborts>>
  /\ UNCHANGED <<gvars, dvars>>
  /\ UNCHANGED wvars
  /\ UNCHANGED cvars

\* CompleteMultipartUploadCommand of completeUpload succeeded: the object
\* exists, the session is deleted, the operation completed and the callback
\* answered with the file id and final_sha256 as the metadata's sha256.
completeUpload_ok(c) ==
  /\ calls[c].state = "completing"
  /\ HasSession(calls[c].upload_id)
  /\ ValidParts(calls[c].parts)
  /\ LET id == calls[c].upload_id IN
       /\ objects' = [objects EXCEPT ![uploadSessions[id].key] = ConcatParts(calls[c].parts)]
       /\ uploadSessions' = [uploadSessions EXCEPT ![id] = NoSession]
       /\ SetTracker(completeOperationS3(Tracker, id))
  /\ calls' = [calls EXCEPT ![c] = [IdleS3Call EXCEPT !.state = "done"]]
  /\ UNCHANGED <<issued, streams, pending, aborts>>
  /\ UNCHANGED <<gvars, dvars>>
  /\ UNCHANGED wvars
  /\ UNCHANGED cvars

\* CompleteMultipartUploadCommand of completeUpload failed: the catch answers
\* the callback with the error and does nothing else.
completeUpload_failed(c) ==
  /\ calls[c].state = "completing"
  /\ calls' = [calls EXCEPT ![c] =
       [IdleS3Call EXCEPT !.state = "done", !.error = "Failed to complete upload"]]
  /\ UNCHANGED <<operations, cleanup, listeners, uploadSessions, objects, issued, streams,
                 pending, aborts>>
  /\ UNCHANGED <<gvars, dvars>>
  /\ UNCHANGED wvars
  /\ UNCHANGED cvars

\* ---- StorageServiceImplementation (S3 service): progress path
\* getUploadProgress / getDownloadProgress: sendProgress is registered as a
\* 'progress' listener and the current record, if any, is sent at once.
getUploadProgress(k, operation_id) ==
  /\ listeners[k].state = "idle"
  /\ LET sub == [IdleListener EXCEPT !.state = "listening", !.op = operation_id] IN
       listeners' = [listeners EXCEPT ![k] =
          IF operations[operation_id] # NoOp
          THEN sendProgress(sub, operations[operation_id]) ELSE sub]
  /\ UNCHANGED <<operations, cleanup, uploadSessions, objects, issued, streams, pending,
                 aborts, calls>>
  /\ UNCHANGED <<gvars, dvars>>
  /\ UNCHANGED wvars
  /\ UNCHANGED cvars

\* call.on('cancelled'): the listener is removed.
getUploadProgress_cancelled(k) ==
  /\ listeners[k].state = "listening"
  /\ listeners[k].endedAt = 0
  /\ listeners' = [listeners EXCEPT ![k].state = "cancelled"]
  /\ UNCHANGED <<operations, cleanup, uploadSessions, objects, issued, streams, pending,
                 aborts, calls>>
  /\ UNCHANGED <<gvars, dvars>>
  /\ UNCHANGED wvars
  /\ UNCHANGED cvars

\* The timer of completeOperation fires: operations.delete(operationId).
operations_delete(id) ==
  /\ cleanup[id] > 0
  /\ cleanup' = [cleanup EXCEPT ![id] = cleanup[id] - 1]
  /\ operations' = [operations EXCEPT ![id] = NoOp]
  /\ UNCHANGED <<listeners, uploadSessions, objects, issued, streams, pending, aborts, calls>>
  /\ UNCHANGED <<gvars, dvars>>
  /\ UNCHANGED wvars
  /\ UNCHANGED cvars

\* ---- StorageServiceImplementation (S3 service): download path
\* The file names a request can carry: the one every upload of the model is
\* made for, and one nothing is stored under.
FileIds == {"f", "g"}
\* generateKey(app_name, version, platform, file_id) of a download request
KeyOf(file_id) == IF file_id = "f" THEN generateKey ELSE "apps/a/1/p/g"
\* The object the store holds under a key (NoObject: none).
ObjectAt(key) == IF key \in Keys THEN objects[key] ELSE NoObject
\* The bodies a client PUTs to a presigned upload URL.
PutBodies == {<<1, 2, 3>>}

NoRange == [start |-> -1, end |-> -1]
\* start_byte && end_byte ? { start: start_byte, end: end_byte } : undefined
\* (the client sends numbers; an absent field arrives as 0)
RangeOf(start_byte, end_byte) ==
  IF start_byte # 0 /\ end_byte # 0 THEN [start |-> start_byte, end |-> end_byte] ELSE NoRange

\* The byte ranges of a request: both fields absent, or 0 <= start < end.
RangeInputs == {<<0, 0>>} \cup {<<a, b>> \in (0..2) \X (1..3) : a < b}

\* GetObjectCommand with Range `bytes=${start}-${end}`: the store answers with
\* the bytes at offsets start..end, both inclusive, cut at the object's end.
Min(a, b) == IF a < b THEN a ELSE b
GetObjectBody(obj, range) ==
  IF range = NoRange THEN obj
  ELSE SubSeq(obj, range.start + 1, Min(range.end + 1, Len(obj)))

IdleDownload == [state |-> "idle", operationId |-> NoId, file_id |-> "",
                 start_byte |-> 0, end_byte |-> 0,
                 size |-> 0, source |-> <<>>, frames |-> <<>>, chunkNumber |-> 0,
                 totalBytesSent |-> 0, cancelled |-> FALSE]

\* The clock of the process advances by a millisecond.
Tick ==
  /\ now < MaxClock
  /\ now' = now + 1
  /\ UNCHANGED <<downloads, g_downloads>>
  /\ UNCHANGED <<gvars, svars>>
  /\ UNCHANGED wvars
  /\ UNCHANGED cvars

\* A client PUTs a file to the presigned URL that initiateUpload answered for
\* a file below the multipart threshold.
presignedPut(body) ==
  /\ \E t \in 0..MaxClock : operations[DirectIdAt(t)] # NoOp
  /\ objects' = [objects EXCEPT ![generateKey] = body]
  /\ UNCHANGED <<operations, cleanup, listeners, uploadSessions, issued, streams, pending,
                 aborts, calls>>
  /\ UNCHANGED <<gvars, dvars>>
  /\ UNCHANGED wvars
  /\ UNCHANGED cvars

\* initiateDownload up to `await this.storage.downloadStream`: HeadObject is
\* answered; without the object the catch destroys the call, otherwise the
\* operation is started under `download-${Date.now()}` with the object's size
\* and GetObjectCommand is sent.
initiateDownload(d, file_id, start_byte, end_byte) ==
  /\ downloads[d].state = "idle"
  /\ \A e \in 1..(d - 1) : downloads[e].state # "idle"
  /\ LET obj == ObjectAt(KeyOf(file_id)) IN
       IF obj = NoObject
       THEN /\ downloads' = [downloads EXCEPT ![d] =
                 [IdleDownload EXCEPT !.state = "destroyed", !.file_id = file_id]]
            /\ UNCHANGED operations
       ELSE /\ downloads' = [downloads EXCEPT ![d] =
                 [IdleDownload EXCEPT !.state = "opening", !.operationId = DownloadIdAt(now),
                                      !.file_id = file_id, !.size = Len(obj),
                                      !.start_byte = start_byte, !.end_byte = end_byte]]
            /\ operations' = startOperation(operations, DownloadIdAt(now), Len(obj))
  /\ UNCHANGED <<cleanup, listeners, uploadSessions, objects, issued, streams, pending,
                 aborts, calls>>
  /\ UNCHANGED <<now, g_downloads>>
  /\ UNCHANGED gvars
  /\ UNCHANGED wvars
  /\ UNCHANGED cvars

\* GetObjectCommand answered with a body: the handlers of the read stream are
\* registered.
downloadStream_ok(d) ==
  /\ downloads[d].state = "opening"
  /\ ObjectAt(KeyOf(downloads[d].file_id)) # NoObject
  /\ LET obj == ObjectAt(KeyOf(downloads[d].file_id))
         range == RangeOf(downloads[d].start_byte, downloads[d].end_byte)
     IN
       /\ range # NoRange => range.start < Len(obj)
       /\ downloads' = [downloads EXCEPT ![d].state = "streaming",
                                         ![d].source = GetObjectBody(obj, range)]
  /\ UNCHANGED <<now, g_downloads>>
  /\ UNCHANGED <<gvars, svars>>
  /\ UNCHANGED wvars
  /\ UNCHANGED cvars

\* GetObjectCommand failed (or came without a body): the catch of
\* initiateDownload destroys the call with the error.
downloadStream_failed(d) ==
  /\ downloads[d].state = "opening"
  /\ downloads' = [downloads EXCEPT ![d].state = "destroyed"]
  /\ UNCHANGED <<now, g_downloads>>
  /\ UNCHANGED <<gvars, svars>>
  /\ UNCHANGED wvars
  /\ UNCHANGED cvars

\* stream.on('data'): the next n bytes of the body arrive; a frame is written
\* and the progress published.
download_data(d, n) ==
  /\ downloads[d].state = "streaming"
  /\ n \in 1..Len(downloads[d].source)
  /\ LET dl == downloads[d]
         data == SubSeq(dl.source, 1, n)
         chunkNumber == dl.chunkNumber + 1
         totalBytesSent == dl.totalBytesSent + n
     IN
       /\ downloads' = [downloads EXCEPT ![d] =
            [dl EXCEPT !.source = SubSeq(dl.source, n + 1, Len(dl.source)),
                       !.chunkNumber = chunkNumber,
                       !.totalBytesSent = totalBytesSent,
                       !.frames = Append(dl.frames,
                          [data |-> data, chunk_number |-> chunkNumber,
                           total_size |-> dl.size, is_final |-> FALSE])]]
       /\ SetTracker(updateProgress(Tracker, dl.operationId, totalBytesSent))
  /\ UNCHANGED <<uploadSessions, objects, issued, streams, pending, aborts, calls>>
  /\ UNCHANGED <<now, g_downloads>>
  /\ UNCHANGED gvars
  /\ UNCHANGED wvars
  /\ UNCHANGED cvars

\* stream.on('end'): the final frame is written, the call ended and the
\* operation completed.
download_end(d) ==
  /\ downloads[d].state = "streaming"
  /\ downloads[d].source = <<>>
  /\ LET dl == downloads[d] IN
       /\ downloads' = [downloads EXCEPT ![d] =
            [dl EXCEPT !.state = "ended",
                       !.frames = Append(dl.frames,
                          [data |-> <<>>, chunk_number |-> dl.chunkNumber + 1,
                           total_size |-> dl.size, is_final |-> TRUE])]]
       /\ SetTracker(completeOperationS3(Tracker, dl.operationId))
  /\ UNCHANGED <<uploadSessions, objects, issued, streams, pending, aborts, calls>>
  /\ UNCHANGED <<now, g_downloads>>
  /\ UNCHANGED gvars
  /\ UNCHANGED wvars
  /\ UNCHANGED cvars

\* stream.on('error'): the operation is failed and the call destroyed.
download_error(d) ==
  /\ downloads[d].state = "streaming"
  /\ downloads' = [downloads EXCEPT ![d].state = "destroyed"]
  /\ SetTracker(failOperationS3(Tracker, downloads[d].operationId))
  /\ UNCHANGED <<uploadSessions, objects, issued, streams, pending, aborts, calls>>
  /\ UNCHANGED <<now, g_downloads>>
  /\ UNCHANGED gvars
  /\ UNCHANGED wvars
  /\ UNCHANGED cvars

\* The client cancels the download: initiateDownload registers no handler for
\* it, so only the call itself is cancelled.
download_cancelled(d) ==
  /\ downloads[d].state \in {"opening", "streaming"}
  /\ ~downloads[d].cancelled
  /\ downloads' = [downloads EXCEPT ![d].cancelled = TRUE]
  /\ UNCHANGED <<now, g_downloads>>
  /\ UNCHANGED <<gvars, svars>>
  /\ UNCHANGED wvars
  /\ UNCHANGED cvars

SDownloadNext ==
  \/ Tick
  \/ \E fs \in S3FileSizes : initiateUpload(fs)
  \/ \E body \in PutBodies : presignedPut(body)
  \/ \E d \in Downloads, f \in FileIds, r \in RangeInputs : initiateDownload(d, f, r[1], r[2])
  \/ \E d \in Downloads : downloadStream_ok(d)
  \/ \E d \in Downloads : downloadStream_failed(d)
  \/ \E d \in Downloads, n \in 1..3 : download_data(d, n)
  \/ \E d \in Downloads : download_end(d)
  \/ \E d \in Downloads : download_error(d)
  \/ \E d \in Downloads : download_cancelled(d)
  \/ \E id \in OpIds : operations_delete(id)

\* ----------------------------------------------- GCS service: download path
\* The file_id values a download request can carry: an upload id (the file_id
\* completeUpload answers) or the path initiateUpload derives from the
\* request's app_name, version, platform and filename.
GFileIds == GKeys
\* bucket.file(objectKey): the object under a key (NoObject: none).
GObjectAt(key) == g_bucket[key]

\* initiateDownload up to the registration of the stream handlers:
\* getFileMetadata fails for a missing object and the catch destroys the
\* call; otherwise the operation is started with the object's size and
\* createReadStream opens the whole object (start_byte and end_byte are read
\* from the request and never used).
grpc_initiateDownload(d, file_id, start_byte, end_byte) ==
  /\ g_downloads[d].state = "idle"
  /\ \A e \in 1..(d - 1) : g_downloads[e].state # "idle"
  /\ LET obj == GObjectAt(file_id) IN
       IF obj = NoObject
       THEN /\ g_downloads' = [g_downloads EXCEPT ![d] =
                 [IdleDownload EXCEPT !.state = "destroyed", !.file_id = file_id]]
            /\ UNCHANGED g_operations
       ELSE /\ g_downloads' = [g_downloads EXCEPT ![d] =
                 [IdleDownload EXCEPT !.state = "streaming", !.operationId = GDownloadIdOf(d),
                                      !.file_id = file_id, !.size = Len(obj), !.source = obj,
                                      !.start_byte = start_byte, !.end_byte = end_byte]]
            /\ g_operations' = startOperation(g_operations, GDownloadIdOf(d), Len(obj))
  /\ UNCHANGED <<g_uploadBuffers, g_streams, g_calls, g_bucket, g_issued, g_subs>>
  /\ UNCHANGED <<now, downloads>>
  /\ UNCHANGED svars
  /\ UNCHANGED wvars
  /\ UNCHANGED cvars

\* downloadStream.on('data')
grpc_download_data(d, n) ==
  /\ g_downloads[d].state = "streaming"
  /\ n \in 1..Len(g_downloads[d].source)
  /\ LET dl == g_downloads[d]
         bytesProcessed == dl.totalBytesSent + n
         chunkNumber == dl.chunkNumber + 1
     IN
       /\ g_operations' = updateOperation(g_operations, dl.operationId, bytesProcessed)
       /\ g_downloads' = [g_downloads EXCEPT ![d] =
            [dl EXCEPT !.source = SubSeq(dl.source, n + 1, Len(dl.source)),
                       !.chunkNumber = chunkNumber,
                       !.totalBytesSent = bytesProcessed,
                       !.frames = Append(dl.frames,
                          [data |-> SubSeq(dl.source, 1, n), chunk_number |-> chunkNumber,
                           total_size |-> dl.size, is_final |-> FALSE])]]
  /\ UNCHANGED <<g_uploadBuffers, g_streams, g_calls, g_bucket, g_issued, g_subs>>
  /\ UNCHANGED <<now, downloads>>
  /\ UNCHANGED svars
  /\ UNCHANGED wvars
  /\ UNCHANGED cvars

\* downloadStream.on('end'): the final marker carries chunk_number -1.
grpc_download_end(d) ==
  /\ g_downloads[d].state = "streaming"
  /\ g_downloads[d].source = <<>>
  /\ LET dl == g_downloads[d] IN
       /\ g_downloads' = [g_downloads EXCEPT ![d] =
            [dl EXCEPT !.state = "ended",
                       !.frames = Append(dl.frames,
                          [data |-> <<>>, chunk_number |-> -1,
                           total_size |-> dl.size, is_final |-> TRUE])]]
       /\ g_operations' = completeOperation(g_operations, dl.operationId)
  /\ UNCHANGED <<g_uploadBuffers, g_streams, g_calls, g_bucket, g_issued, g_subs>>
  /\ UNCHANGED <<now, downloads>>
  /\ UNCHANGED svars
  /\ UNCHANGED wvars
  /\ UNCHANGED cvars

\* downloadStream.on('error')
grpc_download_error(d) ==
  /\ g_downloads[d].state = "streaming"
  /\ g_downloads' = [g_downloads EXCEPT ![d].state = "destroyed"]
  /\ g_operations' = failOperation(g_operations, g_downloads[d].operationId)
  /\ UNCHANGED <<g_uploadBuffers, g_streams, g_calls, g_bucket, g_issued, g_subs>>
  /\ UNCHANGED <<now, downloads>>
  /\ UNCHANGED svars
  /\ UNCHANGED wvars
  /\ UNCHANGED cvars

\* The client cancels the download: no handler is registered for it.
grpc_download_cancelled(d) ==
  /\ g_downloads[d].state = "streaming"
  /\ ~g_downloads[d].cancelled
  /\ g_downloads' = [g_downloads EXCEPT ![d].cancelled = TRUE]
  /\ UNCHANGED <<now, downloads>>
  /\ UNCHANGED <<gvars, svars>>
  /\ UNCHANGED wvars
  /\ UNCHANGED cvars

\* The download calls the GCS specifications make.
GDownloads == 1..1

GDownloadNext ==
  \/ \E d \in GDownloads, f \in GFileIds, r \in RangeInputs : grpc_initiateDownload(d, f, r[1], r[2])
  \/ \E d \in GDownloads, n \in 1..2 : grpc_download_data(d, n)
  \/ \E d \in GDownloads : grpc_download_end(d)
  \/ \E d \in GDownloads : grpc_download_error(d)
  \/ \E d \in GDownloads : grpc_download_cancelled(d)

\* ---- StorageClient (backend): progress subscriptions
\* A message a WebSocket client receives.
Msg(type, operationId, status, bytes) ==
  [type |-> type, operationId |-> operationId, status |-> status, bytes |-> bytes]

\* A listener registered on an emitter: emitter.on / emitter.once
Handler(event, kind, client, once) ==
  [event |-> event, kind |-> kind, client |-> client, once |-> once]

NoEmitter == [op |-> NoId, delivered |-> 0, ended |-> FALSE, handlers |-> <<>>]
NoClient == [state |-> "none", subscriptions |-> {}, received |-> <<>>,
             isAlive |-> FALSE, pings |-> 0, pongs |-> 0]

\* The state of the backend that the handlers of an emitter act on.
Backend ==
  [emitters |-> emitters, w_clients |-> w_clients,
   w_progressSubscriptions |-> w_progressSubscriptions, clients |-> clients]
SetBackend(W) ==
  /\ emitters' = W.emitters
  /\ w_clients' = W.w_clients
  /\ w_progressSubscriptions' = W.w_progressSubscriptions
  /\ clients' = W.clients

\* sendToClient: only an OPEN socket is written to.
sendToClient(cs, c, msg) ==
  IF cs[c].state = "open" THEN [cs EXCEPT ![c].received = Append(cs[c].received, msg)] ELSE cs

\* seq without its elements that satisfy Drop
RECURSIVE Without(_, _)
Without(seq, drop) ==
  IF seq = <<>> THEN <<>>
  ELSE IF Head(seq) \in drop THEN Without(Tail(seq), drop)
       ELSE <<Head(seq)>> \o Without(Tail(seq), drop)

\* What one listener of emitter k does when it is called with payload.
RunHandler(W, k, h, payload) ==
  LET op == W.emitters[k].op IN
  CASE h.kind = "mapCleanup" ->
         \* part_009: progressEmitter.once('end', () => progressSubscriptions.delete(operationId))
         [W EXCEPT !.w_progressSubscriptions[op] = 0]
    [] h.kind = "progressHandler" ->
         \* part_009: progressHandler forwards the progress to the client
         [W EXCEPT !.w_clients = sendToClient(W.w_clients, h.client,
                      Msg("upload-progress", op, payload.status, payload.bytesProcessed))]
    [] h.kind = "clientCleanup" ->
         \* part_009: once('end'): removeListener('progress', progressHandler),
         \* client.subscriptions.delete(operationId)
         [W EXCEPT !.emitters[k].handlers =
                      Without(W.emitters[k].handlers,
                              {Handler("progress", "progressHandler", h.client, FALSE)}),
                   !.w_clients[h.client].subscriptions =
                      W.w_clients[h.client].subscriptions \ {op}]
    [] h.kind = "onData" ->
         \* websocket.ts: progressStream.on('data')
         IF op \in W.clients[h.client].subscriptions
         THEN [W EXCEPT !.clients = sendToClient(W.clients, h.client,
                           Msg("progress", op, "", 0))]
         ELSE W
    [] h.kind = "onEnd" ->
         \* websocket.ts: progressStream.on('end')
         IF op \in W.clients[h.client].subscriptions /\ W.clients[h.client].state = "open"
         THEN [W EXCEPT !.clients =
                 [sendToClient(W.clients, h.client, Msg("complete", op, "", 0))
                    EXCEPT ![h.client].subscriptions = W.clients[h.client].subscriptions \ {op}]]
         ELSE W
    [] h.kind = "onError" ->
         \* websocket.ts: progressStream.on('error')
         IF op \in W.clients[h.client].subscriptions /\ W.clients[h.client].state = "open"
         THEN [W EXCEPT !.clients =
                 [sendToClient(W.clients, h.client, Msg("error", op, "", 0))
                    EXCEPT ![h.client].subscriptions = W.clients[h.client].subscriptions \ {op}]]
         ELSE W

RECURSIVE RunHandlers(_, _, _, _)
RunHandlers(W, k, hs, payload) ==
  IF hs = <<>> THEN W
  ELSE RunHandlers(RunHandler(W, k, Head(hs), payload), k, Tail(hs), payload)

\* emitter.emit(event, payload): the listeners registered for the event at
\* the time of the call run in registration order; a once-listener is removed
\* before it runs.
Emit(W, k, event, payload) ==
  LET hs == SelectSeq(W.emitters[k].handlers, LAMBDA h : h.event = event)
      onces == {hs[i] : i \in {j \in 1..Len(hs) : hs[j].once}}
      W1 == [W EXCEPT !.emitters[k].handlers = Without(W.emitters[k].handlers, onces)]
  IN RunHandlers(W1, k, hs, payload)

\* StorageClient.subscribeToUploadProgress: a new emitter over a new
\* getUploadProgress call (0: no call is left within the bound).
FreeUpstream ==
  IF \E k \in Upstreams : emitters[k].op = NoId
  THEN CHOOSE k \in Upstreams : emitters[k].op = NoId /\ \A j \in Upstreams : j < k => emitters[j].op # NoId
  ELSE 0

\* The storage service receives the call the StorageClient made.
upstream_getUploadProgress(k) ==
  /\ emitters[k].op # NoId
  /\ getUploadProgress(k, emitters[k].op)

\* The frames of call k that reach the backend: those written before the
\* service ended the call.
Deliverable(k) == IF listeners[k].endedAt = 0 THEN Len(listeners[k].written) ELSE listeners[k].endedAt

\* The progress object the StorageClient makes of a frame.
ToProgress(operationId, frame) ==
  [operationId |-> operationId, status |-> frame.status, bytesProcessed |-> frame.bytes]

\* stream.on('data') of the StorageClient: emitter.emit('progress', {...})
stream_data(k) ==
  /\ emitters[k].op # NoId
  /\ emitters[k].delivered < Deliverable(k)
  /\ LET frame == listeners[k].written[emitters[k].delivered + 1]
         W == [Backend EXCEPT !.emitters[k].delivered = emitters[k].delivered + 1]
     IN SetBackend(Emit(W, k, "progress", ToProgress(emitters[k].op, frame)))
  /\ UNCHANGED <<gvars, svars, dvars>>
  /\ UNCHANGED cvars

\* stream.on('end') of the StorageClient: emitter.emit('end')
stream_end(k) ==
  /\ emitters[k].op # NoId
  /\ ~emitters[k].ended
  /\ listeners[k].endedAt # 0
  /\ emitters[k].delivered = listeners[k].endedAt
  /\ SetBackend(Emit([Backend EXCEPT !.emitters[k].ended = TRUE], k, "end", <<>>))
  /\ UNCHANGED <<gvars, svars, dvars>>
  /\ UNCHANGED cvars

\* ---- StorageClient: uploadChunks
\* this.emit(event, payload) on the StorageClient when the callback of call
\* `from` runs: every listener registered for the event is called in
\* registration order and, being registered with once, removed; resolve and
\* reject settle a promise only while it is pending.  An 'error' event with no
\* listener is thrown by EventEmitter.
EmitUpload(sc, event, from) ==
  LET hs == SelectSeq(sc.listeners, LAMBDA h : h.event = event)
      targets == {hs[j].call : j \in 1..Len(hs)}
  IN [sc EXCEPT !.listeners = SelectSeq(sc.listeners, LAMBDA h : h.event # event),
                !.calls = [i \in ClientUploads |->
                             IF i \in targets /\ sc.calls[i].promise.state = "pending"
                             THEN [sc.calls[i] EXCEPT !.promise =
                                     [state |-> IF event = "error" THEN "rejected" ELSE "resolved",
                                      of |-> from]]
                             ELSE sc.calls[i]],
                !.uncaught = sc.uncaught \/ (event = "error" /\ hs = <<>>)]

\* uploadChunks(uploadId): this.client.uploadChunk(metadata, callback) opens
\* the call; the i-th upload of the client.
uploadChunks(i) ==
  /\ storageClient.calls[i].state = "none"
  /\ \A j \in 1..(i - 1) : storageClient.calls[j].state # "none"
  /\ storageClient' = [storageClient EXCEPT !.calls[i].state = "open"]
  /\ UNCHANGED <<gvars, svars, dvars, wvars>>

\* sendChunk: stream.write({upload_id, chunk_number, data, is_final})
sendChunk(i, isFinal) ==
  /\ storageClient.calls[i].state = "open"
  /\ storageClient.calls[i].sent < MaxChunks
  /\ storageClient' = [storageClient EXCEPT
       !.calls[i].sent = storageClient.calls[i].sent + 1,
       !.calls[i].final = storageClient.calls[i].final \/ isFinal]
  /\ UNCHANGED <<gvars, svars, dvars, wvars>>

\* end(): stream.end(), then once('upload-complete', resolve) and
\* once('error', reject) on the StorageClient; the promise is returned.
end(i) ==
  /\ storageClient.calls[i].state = "open"
  /\ storageClient' = [storageClient EXCEPT
       !.calls[i].state = "closed",
       !.calls[i].promise = [state |-> "pending", of |-> 0],
       !.listeners = storageClient.listeners \o
                     <<[event |-> "upload-complete", call |-> i], [event |-> "error", call |-> i]>>]
  /\ UNCHANGED <<gvars, svars, dvars, wvars>>

\* The callback given to this.client.uploadChunk runs, once per call: with the
\* service's response (the S3 service answers at the end of the stream, the
\* GCS service at the is_final chunk), or with an error at any time.
uploadChunk_callback(i, error) ==
  /\ storageClient.calls[i].state # "none"
  /\ ~storageClient.calls[i].answered
  /\ error \/ storageClient.calls[i].state = "closed" \/ storageClient.calls[i].final
  /\ storageClient' =
       EmitUpload([storageClient EXCEPT !.calls[i].answered = TRUE],
                  IF error THEN "error" ELSE "upload-complete", i)
  /\ UNCHANGED <<gvars, svars, dvars, wvars>>

\* ---- WebSocketService (shared-emitter service)
\* The operation ids a WebSocket client names.
WsOpIds == {DownloadIdAt(0)}

\* wss.on('connection'): the client record is made and the welcome sent.
ws_connection(c) ==
  /\ w_clients[c].state = "none"
  /\ \A b \in 1..(c - 1) : w_clients[b].state # "none"
  /\ w_clients' = [w_clients EXCEPT ![c] =
       [NoClient EXCEPT !.state = "open", !.received = <<Msg("connection", NoId, "", 0)>>]]
  /\ UNCHANGED <<emitters, w_progressSubscriptions, clients>>
  /\ UNCHANGED <<gvars, svars, dvars>>
  /\ UNCHANGED cvars

\* subscribeToUploadProgress
ws_subscribeToUploadProgress(c, operationId) ==
  /\ w_clients[c].state = "open"
  /\ Len(w_clients[c].received) < MaxInbox
  /\ IF operationId \in w_clients[c].subscriptions
     THEN UNCHANGED wvars
     ELSE LET known == w_progressSubscriptions[operationId]
              k == IF known # 0 THEN known ELSE FreeUpstream
              created == IF known # 0 THEN emitters[k].handlers
                         ELSE <<Handler("end", "mapCleanup", 0, TRUE)>>
          IN
            /\ k # 0
            /\ emitters' = [emitters EXCEPT ![k] =
                 [op |-> operationId,
                  delivered |-> IF known # 0 THEN emitters[k].delivered ELSE 0,
                  ended |-> IF known # 0 THEN emitters[k].ended ELSE FALSE,
                  handlers |-> created \o <<Handler("progress", "progressHandler", c, FALSE),
                                            Handler("end", "clientCleanup", c, TRUE)>>]]
            /\ w_progressSubscriptions' = [w_progressSubscriptions EXCEPT ![operationId] = k]
            /\ w_clients' = [sendToClient(w_clients, c, Msg("subscribed", operationId, "", 0))
                               EXCEPT ![c].subscriptions = w_clients[c].subscriptions \cup {operationId}]
            /\ UNCHANGED clients
  /\ UNCHANGED <<gvars, svars, dvars>>
  /\ UNCHANGED cvars

\* unsubscribeFromProgress without the check for other subscribers: the
\* operation's emitter is always stripped and forgotten.
unsubscribeFromProgress_noCheck(W, c, operationId) ==
  LET k == W.w_progressSubscriptions[operationId]
      W1 == [W EXCEPT !.w_clients[c].subscriptions = W.w_clients[c].subscriptions \ {operationId}]
      W2 == IF k # 0
            THEN [W1 EXCEPT !.emitters[k].handlers = <<>>,
                            !.w_progressSubscriptions[operationId] = 0]
            ELSE W1
  IN [W2 EXCEPT !.w_clients = sendToClient(W2.w_clients, c, Msg("unsubscribed", operationId, "", 0))]

\* unsubscribeFromProgress, on the state W
unsubscribeFromProgress(W, c, operationId) ==
  LET hasOtherSubscribers ==
        \E b \in Clients : /\ b # c
                           /\ W.w_clients[b].state = "open"
                           /\ operationId \in W.w_clients[b].subscriptions
      k == W.w_progressSubscriptions[operationId]
      W1 == [W EXCEPT !.w_clients[c].subscriptions = W.w_clients[c].subscriptions \ {operationId}]
      W2 == IF ~hasOtherSubscribers /\ k # 0
            THEN [W1 EXCEPT !.emitters[k].handlers = <<>>,
                            !.w_progressSubscriptions[operationId] = 0]
            ELSE W1
  IN [W2 EXCEPT !.w_clients = sendToClient(W2.w_clients, c, Msg("unsubscribed", operationId, "", 0))]

\* The client's 'unsubscribe' message
ws_unsubscribeFromProgress(c, operationId) ==
  /\ w_clients[c].state = "open"
  /\ Len(w_clients[c].received) < MaxInbox
  /\ SetBackend(unsubscribeFromProgress(Backend, c, operationId))
  /\ UNCHANGED <<gvars, svars, dvars>>
  /\ UNCHANGED cvars

RECURSIVE UnsubscribeAll(_, _, _)
UnsubscribeAll(W, c, ops) ==
  IF ops = {} THEN W
  ELSE LET o == CHOOSE x \in ops : TRUE
       IN UnsubscribeAll(unsubscribeFromProgress(W, c, o), c, ops \ {o})

\* ws.on('close') -> handleClientDisconnect: the socket is no longer OPEN, the
\* client's subscriptions are released and the client removed.
ws_handleClientDisconnect(c) ==
  /\ w_clients[c].state = "open"
  /\ LET W0 == [Backend EXCEPT !.w_clients[c].state = "closed"]
     IN SetBackend(UnsubscribeAll(W0, c, w_clients[c].subscriptions))
  /\ UNCHANGED <<gvars, svars, dvars>>
  /\ UNCHANGED cvars

\* ---- WebSocketService (heartbeat service)
\* wss.on('connection')
connection(c) ==
  /\ clients[c].state = "none"
  /\ \A b \in 1..(c - 1) : clients[b].state # "none"
  /\ clients' = [clients EXCEPT ![c] =
       [NoClient EXCEPT !.state = "open", !.isAlive = TRUE,
                        !.received = <<Msg("connected", NoId, "", 0)>>]]
  /\ UNCHANGED <<emitters, w_clients, w_progressSubscriptions>>
  /\ UNCHANGED <<gvars, svars, dvars>>
  /\ UNCHANGED cvars

\* handleSubscribe: the session id joins the client's subscriptions, a
\* progress stream is opened at the storage client, listeners for its 'data',
\* 'end' and 'error' events are registered and the subscription confirmed.
handleSubscribe(c, sessionId) ==
  /\ clients[c].state = "open"
  /\ Len(clients[c].received) < MaxInbox
  /\ FreeUpstream # 0
  /\ LET k == FreeUpstream IN
       emitters' = [emitters EXCEPT ![k] =
         [NoEmitter EXCEPT !.op = sessionId,
                           !.handlers = <<Handler("data", "onData", c, FALSE),
                                          Handler("end", "onEnd", c, FALSE),
                                          Handler("error", "onError", c, FALSE)>>]]
  /\ clients' = [sendToClient(clients, c, Msg("subscribed", sessionId, "", 0))
                   EXCEPT ![c].subscriptions = clients[c].subscriptions \cup {sessionId}]
  /\ UNCHANGED <<w_clients, w_progressSubscriptions>>
  /\ UNCHANGED <<gvars, svars, dvars>>
  /\ UNCHANGED cvars

\* handleUnsubscribe
handleUnsubscribe(c, sessionId) ==
  /\ clients[c].state = "open"
  /\ Len(clients[c].received) < MaxInbox
  /\ clients' = IF sessionId \in clients[c].subscriptions
                THEN [sendToClient(clients, c, Msg("unsubscribed", sessionId, "", 0))
                        EXCEPT ![c].subscriptions = clients[c].subscriptions \ {sessionId}]
                ELSE clients
  /\ UNCHANGED <<emitters, w_clients, w_progressSubscriptions>>
  /\ UNCHANGED <<gvars, svars, dvars>>
  /\ UNCHANGED cvars

\* A pong that arrives and is not taken as a sign of life.
handlePong_ignored(c) ==
  /\ clients[c].state = "open"
  /\ clients[c].pings > 0
  /\ clients' = [clients EXCEPT ![c].pings = 0,
                                ![c].pongs = Min(clients[c].pongs + 1, MaxPongs)]
  /\ UNCHANGED <<emitters, w_clients, w_progressSubscriptions>>
  /\ UNCHANGED <<gvars, svars, dvars>>
  /\ UNCHANGED cvars

\* ws.on('pong') -> handlePong: the client answered the pings sent to it
\* (pongs counts the answers, up to MaxPongs).
handlePong(c) ==
  /\ clients[c].state = "open"
  /\ clients[c].pings > 0
  /\ clients' = [clients EXCEPT ![c].isAlive = TRUE, ![c].pings = 0,
                                ![c].pongs = Min(clients[c].pongs + 1, MaxPongs)]
  /\ UNCHANGED <<emitters, w_clients, w_progressSubscriptions>>
  /\ UNCHANGED <<gvars, svars, dvars>>
  /\ UNCHANGED cvars

\* ws.on('close') -> handleDisconnect: the client is removed from the map.
handleDisconnect(c) ==
  /\ clients[c].state = "open"
  /\ clients' = [clients EXCEPT ![c].state = "closed"]
  /\ UNCHANGED <<emitters, w_clients, w_progressSubscriptions>>
  /\ UNCHANGED <<gvars, svars, dvars>>
  /\ UNCHANGED cvars

\* The callback of startHeartbeat's interval: a client that is not alive is
\* terminated and removed; any other is marked not alive and pinged.
heartbeat ==
  /\ \E c \in Clients : clients[c].state = "open"
  /\ clients' = [c \in Clients |->
       IF clients[c].state # "open" THEN clients[c]
       ELSE IF ~clients[c].isAlive THEN [clients[c] EXCEPT !.state = "terminated"]
       ELSE [clients[c] EXCEPT !.isAlive = FALSE, !.pings = clients[c].pings + 1]]
  /\ UNCHANGED <<emitters, w_clients, w_progressSubscriptions>>
  /\ UNCHANGED <<gvars, svars, dvars>>
  /\ UNCHANGED cvars

\* stream.on('error') of the StorageClient: emitter.emit('error', error)
stream_error(k) ==
  /\ emitters[k].op # NoId
  /\ ~emitters[k].ended
  /\ SetBackend(Emit([Backend EXCEPT !.emitters[k].ended = TRUE], k, "error", <<>>))
  /\ UNCHANGED <<gvars, svars, dvars>>
  /\ UNCHANGED cvars

SStreamNext ==
  \/ \E fs \in S3FileSizes : initiateUpload(fs)
  \/ \E s \in Streams, chunk \in Chunks(issued) : uploadChunk_data(s, chunk)
  \/ \E p \in pending : uploadPart_ok(p)
  \/ \E p \in pending : uploadPart_failed(p)
  \/ \E p \in pending : completeMultipartUpload_ok(p)
  \/ \E p \in pending : completeMultipartUpload_failed(p)
  \/ \E s \in Streams : uploadChunk_end(s)
  \/ \E s \in Streams : uploadChunk_error(s)
  \/ \E id \in UploadIds : abortMultipartUpload_ok(id)
  \/ \E id \in UploadIds : abortMultipartUpload_failed(id)

SCommitNext ==
  \/ \E u \in KnownIds(issued), d \in DigestInputs : completeUpload(u, d)
  \/ \E c \in Calls : completeUpload_ok(c)
  \/ \E c \in Calls : completeUpload_failed(c)

SProgressNext ==
  \/ \E k \in Subs, u \in KnownIds(issued) \cup {DirectId} : getUploadProgress(k, u)
  \/ \E k \in Subs : getUploadProgress_cancelled(k)
  \/ \E id \in OpIds : operations_delete(id)

DInit ==
  /\ now = 0
  /\ downloads = [d \in Downloads |-> IdleDownload]
  /\ g_downloads = [d \in Downloads |-> IdleDownload]

WInit ==
  /\ emitters = [k \in Upstreams |-> NoEmitter]
  /\ w_clients = [c \in Clients |-> NoClient]
  /\ w_progressSubscriptions = [u \in OpIds |-> 0]
  /\ clients = [c \in Clients |-> NoClient]

CInit ==
  storageClient =
    [calls |-> [i \in ClientUploads |->
                  [state |-> "none", sent |-> 0, final |-> FALSE, answered |-> FALSE,
                   promise |-> [state |-> "none", of |-> 0]]],
     listeners |-> <<>>,
     uncaught |-> FALSE]

Init == GInit /\ SInit /\ DInit /\ WInit /\ CInit

\* The S3 / MinIO service.
SNext == SStreamNext \/ SCommitNext
Spec == Init /\ [][SNext]_vars

\* The S3 / MinIO service with progress subscribers.
SProgNext == SStreamNext \/ SProgressNext
SpecProgress == Init /\ [][SProgNext]_vars

\* The S3 / MinIO service: downloads of files put through presigned URLs.
SpecDownload == Init /\ [][SDownloadNext]_vars

\* One download of the S3 / MinIO service, the operation the WebSocket
\* clients follow.
OperationNext ==
  \/ initiateUpload(MultipartThreshold)
  \/ \E body \in PutBodies : presignedPut(body)
  \/ initiateDownload(1, "f", 0, 0)
  \/ downloadStream_ok(1)
  \/ \E n \in 1..2 : download_data(1, n)
  \/ download_end(1)
  \/ download_error(1)
  \/ \E id \in OpIds : operations_delete(id)

StorageClientNext ==
  \/ \E k \in Upstreams : upstream_getUploadProgress(k)
  \/ \E k \in Upstreams : stream_data(k)
  \/ \E k \in Upstreams : stream_end(k)

WsNext ==
  \/ \E c \in Clients : ws_connection(c)
  \/ \E c \in Clients, u \in WsOpIds : ws_subscribeToUploadProgress(c, u)
  \/ \E c \in Clients, u \in WsOpIds : ws_unsubscribeFromProgress(c, u)
  \/ \E c \in Clients : ws_handleClientDisconnect(c)

\* The backend's shared-emitter WebSocket service over the S3 / MinIO service.
SpecWs == Init /\ [][OperationNext \/ StorageClientNext \/ WsNext]_vars

\* The S3 / MinIO service with uploads over one uploadChunk stream. What the
\* service and the store do on their own always happens in the end; a client
\* may stop sending at any point.
SAbandonNext ==
  \/ \E fs \in S3FileSizes : initiateUpload(fs)
  \/ \E chunk \in Chunks(issued) : uploadChunk_data(1, chunk)
  \/ \E p \in pending : uploadPart_ok(p)
  \/ \E p \in pending : uploadPart_failed(p)
  \/ \E p \in pending : completeMultipartUpload_ok(p)
  \/ \E p \in pending : completeMultipartUpload_failed(p)
  \/ uploadChunk_end(1)
  \/ uploadChunk_error(1)
  \/ \E id \in UploadIds : abortMultipartUpload_ok(id)
  \/ \E id \in UploadIds : abortMultipartUpload_failed(id)
  \/ \E id \in OpIds : operations_delete(id)

ServiceSteps ==
  \/ \E p \in pending : uploadPart_ok(p) \/ uploadPart_failed(p)
  \/ \E p \in pending : completeMultipartUpload_ok(p) \/ completeMultipartUpload_failed(p)
  \/ \E id \in UploadIds : abortMultipartUpload_ok(id) \/ abortMultipartUpload_failed(id)
  \/ \E id \in OpIds : operations_delete(id)

SpecAbandon == Init /\ [][SAbandonNext]_vars /\ WF_vars(ServiceSteps)

\* The S3 / MinIO service: initiateUpload with every kind of declared size,
\* and the uploads that follow over one uploadChunk stream.
SpecInitiate ==
  Init /\ [][(\E r \in InitiateRequests : initiateUpload(Defaults(r))) \/ SAbandonNext]_vars

\* One StorageClient of the backend with its uploads in flight.
ClientNext ==
  \/ \E i \in ClientUploads : uploadChunks(i)
  \/ \E i \in ClientUploads, isFinal \in BOOLEAN : sendChunk(i, isFinal)
  \/ \E i \in ClientUploads : end(i)
  \/ \E i \in ClientUploads, error \in BOOLEAN : uploadChunk_callback(i, error)

SpecClient == Init /\ [][ClientNext]_vars

\* The heartbeat WebSocket service: connections, subscriptions and liveness.
HbNext ==
  \/ \E c \in Clients : connection(c)
  \/ \E c \in Clients, u \in WsOpIds : handleSubscribe(c, u)
  \/ \E c \in Clients, u \in WsOpIds : handleUnsubscribe(c, u)
  \/ \E c \in Clients : handlePong(c)
  \/ \E c \in Clients : handleDisconnect(c)
  \/ heartbeat
  \/ \E k \in Upstreams : upstream_getUploadProgress(k)

SpecHb == Init /\ [][HbNext]_vars

\* The heartbeat WebSocket service relaying the progress of one download of
\* the S3 / MinIO service.
RelayNext ==
  \/ \E c \in Clients : connection(c)
  \/ \E c \in Clients, u \in WsOpIds : handleSubscribe(c, u)
  \/ \E c \in Clients, u \in WsOpIds : handleUnsubscribe(c, u)
  \/ \E c \in Clients : handleDisconnect(c)
  \/ \E k \in Upstreams : stream_error(k)

SpecRelay == Init /\ [][OperationNext \/ StorageClientNext \/ RelayNext]_vars

\* The GCS service.
SpecGcs == Init /\ [][GNext]_vars

\* The GCS service: uploads over one stream that the provider stores, and
\* downloads.
GStoreNext ==
  \/ \E fs \in FileSizes : grpc_initiateUpload(fs)
  \/ \E chunk \in Chunks(g_issued) : grpc_uploadChunk_data(1, chunk)
  \/ \E u \in KnownIds(g_issued), d \in DigestInputs : grpc_completeUpload(u, d)
  \/ \E c \in Calls : grpc_completeUpload_uploaded(c)

GUpDownNext == GStoreNext \/ GDownloadNext
SpecGcsDownload == Init /\ [][GUpDownNext]_vars

\* The GCS service with progress subscribers.
GProgNext == GNext \/ GProgressNext
SpecGcsProgress == Init /\ [][GProgNext]_vars

\* ================================================================ properties
\* The chunk_number of the chunk a stream of the GCS service buffered last
\* (0 before the first): the chunk numbered n carries the piece <<n>>.
LastAccepted(st) == IF st.chunks = <<>> THEN 0 ELSE st.chunks[Len(st.chunks)][1]

\* C1 (strict sequencing): a chunk whose chunk_number is not the number of
\* the stream's last accepted chunk plus one is rejected: the stream's buffer
\* and received-byte count, the uploadBuffers entry and the progress records
\* stay as they were.
C1_StrictSequencing ==
  [][\A s \in Streams, chunk \in Chunks(g_issued) :
       (grpc_uploadChunk_data(s, chunk)
          /\ chunk.chunk_number # LastAccepted(g_streams[s]) + 1)
       => /\ g_streams'[s].chunks = g_streams[s].chunks
          /\ g_streams'[s].totalBytes = g_streams[s].totalBytes
          /\ g_uploadBuffers' = g_uploadBuffers
          /\ g_operations' = g_operations]_vars

RECURSIVE SortByNo(_)
\* The buffers of a sequence ordered by the chunk_number of the piece each
\* holds (stable).
SortByNo(chunks) ==
  IF chunks = <<>> THEN <<>>
  ELSE LET m == CHOOSE i \in 1..Len(chunks) :
                  \A j \in 1..Len(chunks) :
                     \/ chunks[i][1] < chunks[j][1]
                     \/ (chunks[i][1] = chunks[j][1] /\ i <= j)
           rest == [k \in 1..(Len(chunks) - 1) |-> IF k < m THEN chunks[k] ELSE chunks[k + 1]]
       IN <<chunks[m]>> \o SortByNo(rest)

\* The payloads of the parts a multipart session holds, in list order.
RECURSIVE PartData(_)
PartData(parts) == IF parts = <<>> THEN <<>> ELSE <<parts[1].data>> \o PartData(Tail(parts))

\* C2 (byte conservation): whenever an upload completes successfully, by
\* completeUpload or by the completion the is_final chunk triggers in
\* uploadChunk, the stored object is the concatenation, in chunk_number
\* order, of the payloads of the parts accepted for the session.
C2_ByteConservation ==
  [][/\ \A p \in pending :
          completeMultipartUpload_ok(p) =>
            LET sess == uploadSessions[streams[p.s].uploadId] IN
              objects'[sess.key] = Concat(SortByNo(PartData(sess.parts)))
     /\ \A c \in Calls :
          completeUpload_ok(c) =>
            LET sess == uploadSessions[calls[c].upload_id] IN
              objects'[sess.key] = Concat(SortByNo(PartData(sess.parts)))]_vars

\* C3 (digest honouring): a completeUpload that was given final_sha256
\* succeeds only if the SHA-256 of the object stored for the upload equals it.
C3_DigestHonoured ==
  [][\A c \in Calls :
       (completeUpload_ok(c) /\ calls[c].final_sha256 # NoDigest)
       => Sha256(objects'[uploadSessions[calls[c].upload_id].key]) = calls[c].final_sha256]_vars

\* C4 (monotone progress): the snapshots written to one subscriber carry
\* non-decreasing bytes_processed, and once a terminal snapshot has ended the
\* subscriber's stream nothing is written after it.
C4_MonotoneProgress ==
  \A k \in Subs :
    LET w == listeners[k].written IN
      /\ \A i \in 1..(Len(w) - 1) : w[i].bytes <= w[i + 1].bytes
      /\ listeners[k].endedAt # 0 => listeners[k].endedAt = Len(w)

\* How many of the snapshots written to a subscriber are terminal.
TerminalCount(w) == Cardinality({i \in 1..Len(w) : Terminal(w[i].status)})

\* C5 (terminal delivery): in a step in which an operation enters a terminal
\* state every subscriber attached to it is sent exactly one terminal
\* snapshot, and in no other step is an attached subscriber sent one.
C5_OneTerminalSnapshot ==
  [][\A k \in Subs :
       listeners[k].state = "listening" =>
         LET id == listeners[k].op
             enters == ~Terminal(operations[id].status) /\ Terminal(operations'[id].status)
         IN TerminalCount(listeners'[k].written) =
              TerminalCount(listeners[k].written) + (IF enters THEN 1 ELSE 0)]_vars

\* A completeUpload call of the S3 service gets the store's answer in this step.
CommitAnswered == \E c \in Calls : calls[c].state = "completing" /\ calls'[c].state = "done"

\* C6 (is_final only signals): nothing is committed to the store and no
\* session is closed by uploadChunk; an object is stored, and a multipart
\* session that was not aborted ends, only in a step of a completeUpload call.
C6_FinalOnlySignals ==
  [][/\ objects' # objects => CommitAnswered
     /\ \A id \in UploadIds :
          (HasSession(id) /\ uploadSessions'[id] = NoSession /\ id \notin aborts)
            => CommitAnswered]_vars

\* The commit of an upload of the GCS service has begun: a completeUpload call
\* for it is at uploadData or has stored the object.
CommitBegun(id) ==
  \E c \in Calls : /\ g_calls[c].upload_id = id
                   /\ \/ g_calls[c].state = "uploading"
                      \/ g_calls[c].state = "done" /\ g_calls[c].error = ""

\* C7 (no chunk after commit): a chunk that reaches uploadChunk after the
\* commit of its upload has begun is not buffered and leaves the progress
\* records and the uploadBuffers entry unchanged.
C7_NoChunkAfterCommit ==
  [][\A s \in Streams, chunk \in Chunks(g_issued) :
       (grpc_uploadChunk_data(s, chunk) /\ CommitBegun(g_streams'[s].uploadId))
       => /\ g_streams'[s].chunks = g_streams[s].chunks
          /\ g_operations' = g_operations
          /\ g_uploadBuffers' = g_uploadBuffers]_vars

\* The completeUpload calls of the GCS service that passed the checks for an
\* upload and reached uploadData.
Admitted(id) ==
  {c \in Calls : /\ g_calls[c].upload_id = id
                 /\ \/ g_calls[c].state = "uploading"
                    \/ g_calls[c].state = "done" /\ g_calls[c].error \in {"", "Upload failed"}}

\* C8 (single commit): for each upload at most one completeUpload call is
\* admitted and reaches the storage provider.
C8_SingleCommit == \A id \in UploadIds : Cardinality(Admitted(id)) <= 1

\* C9 (failed commit cleans up): when a completeUpload whose command the
\* store rejected fails, the operation's record becomes failed and the
\* multipart session held by the provider is released.
C9_FailedCommitCleansUp ==
  [][\A c \in Calls :
       completeUpload_failed(c) =>
         /\ operations'[calls[c].upload_id].status = "failed"
         /\ uploadSessions'[calls[c].upload_id] = NoSession]_vars

\* A chunk of the upload failed in uploadChunk's data handler: the record is
\* failed and no stream of the upload had a stream error (the only other way
\* the upload path fails a record).
ChunkFailed(id) ==
  /\ operations[id].status = "failed"
  /\ \A r \in Streams : streams[r].uploadId = id => streams[r].state # "error"

\* C10 (ingest failure terminates): once a chunk of an upload has failed
\* during ingest, no later chunk of the upload is sent to the store, no
\* object is stored from it and its record stays failed.
C10_IngestFailureTerminates ==
  [][\A id \in UploadIds :
       ChunkFailed(id) =>
         /\ operations'[id].status = "failed"
         /\ \A s \in Streams, chunk \in Chunks(issued) :
              (uploadChunk_data(s, chunk) /\ streams'[s].uploadId = id) => pending' = pending
         /\ (HasSession(id) => objects'[uploadSessions[id].key] = objects[uploadSessions[id].key])]_vars

\* The upload ids initiateUpload of the GCS service has returned so far.
IssuedIds == {UploadIdSeq[i] : i \in 1..g_issued}

\* C11 (unknown upload id): for an upload id that initiateUpload never
\* issued no chunk is buffered, no uploadBuffers entry is made and no object
\* is stored under it.
C11_UnknownIdRejected ==
  \A id \in UploadIds \ IssuedIds :
    /\ g_bucket[id] = NoObject
    /\ g_uploadBuffers[id] = NoStream
    /\ \A s \in Streams : g_streams[s].uploadId = id => g_streams[s].chunks = <<>>

\* Some upload of the GCS service has been committed: its object is stored.
\* Every upload of the model is made for the coordinate (a, 1, p, f).
Committed(id) == id \in UploadIds /\ g_bucket[id] # NoObject

\* C12 (round trip): once an upload for a coordinate is committed, a download
\* request naming that coordinate finds the object and gets, as its source,
\* the bytes stored at the commit.
C12_RoundTrip ==
  [][\A d \in Downloads, r \in RangeInputs :
       (grpc_initiateDownload(d, ObjectPath, r[1], r[2]) /\ \E id \in UploadIds : Committed(id))
       => /\ g_downloads'[d].state = "streaming"
          /\ \E id \in UploadIds : Committed(id) /\ g_downloads'[d].source = g_bucket[id]]_vars

\* C13 (download sequencing): the frames of one initiateDownload stream, the
\* final is_final frame included, carry strictly increasing chunk_number.
C13_FramesIncreasing ==
  \A d \in Downloads :
    LET fr == g_downloads[d].frames IN
      \A i \in 1..(Len(fr) - 1) : fr[i].chunk_number < fr[i + 1].chunk_number

RECURSIVE Payload(_)
\* The payloads of a sequence of frames, concatenated in the order written.
Payload(frames) == IF frames = <<>> THEN <<>> ELSE frames[1].data \o Payload(Tail(frames))

\* The download asked for the half-open byte range [start_byte, end_byte).
Ranged(dl) == <<dl.start_byte, dl.end_byte>> # <<0, 0>>

\* C14 (ranged download): a finished download of the range [start, end)
\* inside the object has delivered exactly the bytes at offsets start..end-1,
\* for every such range, start = 0 included.
C14_RangeBytes ==
  \A d \in Downloads :
    LET dl == downloads[d] IN
      (dl.state = "ended" /\ Ranged(dl) /\ dl.end_byte <= dl.size)
      => Payload(dl.frames) = SubSeq(ObjectAt(KeyOf(dl.file_id)), dl.start_byte + 1, dl.end_byte)

\* bytes_total of a download: the length of the requested range, or the
\* object's size when no range is asked for.
ExpectedTotal(dl) == IF Ranged(dl) THEN dl.end_byte - dl.start_byte ELSE dl.size

\* C15 (download total): the progress record of a download is created with
\* bytes_total equal to the range length (the object size without a range),
\* and every frame written carries that number as total_size.
C15_DownloadTotal ==
  [][\A d \in Downloads :
       /\ (downloads[d].state = "idle" /\ downloads'[d].state = "opening")
            => operations'[downloads'[d].operationId].bytesTotal = ExpectedTotal(downloads'[d])
       /\ Len(downloads'[d].frames) > Len(downloads[d].frames)
            => downloads'[d].frames[Len(downloads'[d].frames)].total_size
                 = ExpectedTotal(downloads'[d])]_vars

\* The positions of the is_final frames among the frames written to a call.
FinalFrames(frames) == {i \in 1..Len(frames) : frames[i].is_final}

\* C16 (final frame): when the source of a download is exhausted without
\* error, exactly one is_final frame has been written, it is the last frame
\* and has an empty payload, and the operation's record becomes completed.
C16_FinalFrame ==
  [][\A d \in Downloads :
       download_end(d) =>
         LET dl == downloads'[d] IN
           /\ FinalFrames(dl.frames) = {Len(dl.frames)}
           /\ dl.frames[Len(dl.frames)].data = <<>>
           /\ dl.state = "ended"
           /\ operations'[dl.operationId].status = "completed"]_vars

\* C17 (cancellation): when the client cancels a download, the record of the
\* operation becomes failed, and from then on nothing more is read from the
\* provider's stream and no further frame is written.
C17_CancelReleases ==
  [][\A d \in Downloads :
       /\ download_cancelled(d)
            => operations'[downloads[d].operationId].status = "failed"
       /\ downloads[d].cancelled
            => /\ downloads'[d].source = downloads[d].source
               /\ downloads'[d].frames = downloads[d].frames]_vars

\* C18 (download failure): whenever a download whose record was created ends
\* in error, failure to open the provider's stream included, its record is
\* failed at that step and not left in_progress.
C18_DownloadFailureRecorded ==
  [][\A d \in Downloads :
       (downloads[d].state \in {"opening", "streaming"} /\ downloads'[d].state = "destroyed")
       => operations'[downloads[d].operationId].status = "failed"]_vars

\* C19 (unique operation ids): the id under which a new direct upload or a
\* new download starts its record is an id no earlier operation has used, so
\* no record is shared: at the step that starts it, no record exists under it
\* and no other download already runs under it.
C19_UniqueOperationIds ==
  [][/\ \A fs \in S3FileSizes :
          (initiateUpload(fs) /\ fs <= MultipartThreshold)
          => operations[DirectIdAt(now)] = NoOp
     /\ \A d \in Downloads :
          (downloads[d].state = "idle" /\ downloads'[d].state = "opening")
          => /\ operations[downloads'[d].operationId] = NoOp
             /\ \A e \in Downloads \ {d} :
                  downloads[e].operationId # downloads'[d].operationId]_vars

\* C20 (unknown operation): a progress subscription for an id under which no
\* record exists and none was ever started is answered at once with one
\* terminator of status not_found and the stream is closed: the call does
\* not stay open, listening for events.
C20_UnknownOperationTerminates ==
  [][\A k \in Subs :
       (getUploadProgress(k, "ux") /\ operations["ux"] = NoOp)
       => /\ Len(listeners'[k].written) = 1
          /\ listeners'[k].written[1].status = "not_found"
          /\ listeners'[k].endedAt = 1
          /\ listeners'[k].state # "listening"]_vars

\* The progress messages for operation u among the messages a client received.
ProgressOf(received, u) ==
  SelectSeq(received, LAMBDA m : m.type = "upload-progress" /\ m.operationId = u)

\* C21 (snapshot on subscribe): a WebSocket client subscribed to an operation
\* in progress has, as soon as the backend has read everything the storage
\* service streamed for it, received the operation's current snapshot as its
\* latest progress message, also when it joined an operation another client
\* follows already.
C21_SnapshotOnSubscribe ==
  \A c \in Clients, u \in WsOpIds :
    LET k == w_progressSubscriptions[u]
        got == ProgressOf(w_clients[c].received, u)
    IN
      (/\ w_clients[c].state = "open"
       /\ u \in w_clients[c].subscriptions
       /\ operations[u] # NoOp /\ operations[u].status = "in_progress"
       /\ k # 0
       /\ listeners[k].state = "listening" /\ listeners[k].written # <<>>
       /\ emitters[k].delivered = Len(listeners[k].written))
      => /\ got # <<>>
         /\ got[Len(got)].status = operations[u].status
         /\ got[Len(got)].bytes = operations[u].bytesProcessed

\* C22 (records are cleaned up): at the step a progress record of the S3 /
\* MinIO service becomes terminal, through completeOperation or through
\* failOperation, its deletion is scheduled; and a record is deleted only
\* when it is terminal.
C22_TerminalRecordsDeleted ==
  [][\A id \in OpIds :
       /\ (operations[id] # NoOp /\ ~Terminal(operations[id].status)
             /\ operations'[id] # NoOp /\ Terminal(operations'[id].status))
            => cleanup'[id] > cleanup[id]
       /\ (operations[id] # NoOp /\ operations'[id] = NoOp)
            => Terminal(operations[id].status)]_vars

\* C23 (idle sessions are evicted): an upload session of the provider does not
\* stay in the session store for ever: once its chunks stop coming (as they
\* must, the streams being finite) it is completed or aborted and removed.
C23_AbandonedSessionAborted ==
  \A id \in {UploadIdSeq[i] : i \in 1..Len(UploadIdSeq)} :
    HasSession(id) ~> ~HasSession(id)

\* A part list that is parts 1..n in order.
Gapless(parts) == \A i \in 1..Len(parts) : parts[i].PartNumber = i

\* C24 (part list at completion): every part list sent to the store with
\* CompleteMultipartUpload, by completeUpload or by the completion the
\* is_final chunk triggers, is parts 1..n in ascending order, without gaps or
\* duplicates.
C24_PartListGapless ==
  [][/\ \A c \in Calls :
          (calls[c].state = "idle" /\ calls'[c].state = "completing")
          => Gapless(calls'[c].parts)
     /\ \A p \in pending' \ pending : p.stage = "complete" => Gapless(p.list)]_vars

\* C25 (two missed pongs): the heartbeat terminates a connection only when
\* the last two pings sent to it have both gone unanswered; one unanswered
\* ping does not end the connection at the next tick.
C25_TwoMissedPongs ==
  [][\A c \in Clients :
       (clients[c].state = "open" /\ clients'[c].state = "terminated")
       => clients[c].pings >= 2]_vars

\* C26 (disconnect releases): a connection of the heartbeat service that has
\* closed, by the client or by the heartbeat, holds no subscription and no
\* progress stream of the storage client still has listeners registered on
\* its behalf.
C26_DisconnectReleases ==
  \A c \in Clients :
    clients[c].state \in {"closed", "terminated"}
    => /\ clients[c].subscriptions = {}
       /\ \A k \in Upstreams :
            \A i \in 1..Len(emitters[k].handlers) : emitters[k].handlers[i].client # c

\* The frames of call k that the backend has read.
Read(k) == SubSeq(listeners[k].written, 1, emitters[k].delivered)

\* C27 (complete only when completed): whenever the heartbeat service sends
\* a client a `complete` message for an operation, the terminal snapshot the
\* storage service streamed for it has status completed: an operation that
\* ended failed yields no `complete` message.
C27_CompleteOnlyWhenCompleted ==
  [][\A k \in Upstreams, c \in Clients :
       (/\ stream_end(k)
        /\ Len(clients'[c].received) > Len(clients[c].received)
        /\ clients'[c].received[Len(clients'[c].received)].type = "complete")
       => Read(k)[Len(Read(k))].status = "completed"]_vars

\* C28 (relay): when the backend reads a progress snapshot that the storage
\* service streamed for an operation, every open connection of the heartbeat
\* service subscribed to that operation through this stream is sent a
\* `progress` message.
C28_SnapshotsRelayed ==
  [][\A k \in Upstreams, c \in Clients :
       (/\ stream_data(k)
        /\ clients[c].state = "open"
        /\ emitters[k].op \in clients[c].subscriptions
        /\ \E i \in 1..Len(emitters[k].handlers) : emitters[k].handlers[i].client = c)
       => /\ Len(clients'[c].received) = Len(clients[c].received) + 1
          /\ clients'[c].received[Len(clients'[c].received)].type = "progress"]_vars

\* The listeners client b has on the emitter of call k.
HandlersOf(em, b) == SelectSeq(em.handlers, LAMBDA h : h.client = b)

\* C29 (subscriber independence at the gateway): when a client of the
\* shared-emitter service unsubscribes from an operation or disconnects, every
\* other open client subscribed to the operation stays subscribed with its
\* listeners in place on the operation's emitter, and the operation itself is
\* untouched; and every snapshot the backend then reads from that emitter's
\* stream, the terminal one included, is sent to each such client.
C29_OthersKeepReceiving ==
  [][/\ \A a \in Clients, b \in Clients, u \in WsOpIds :
          (/\ a # b
           /\ ws_unsubscribeFromProgress(a, u) \/ ws_handleClientDisconnect(a)
           /\ w_clients[b].state = "open"
           /\ u \in w_clients[b].subscriptions)
          => /\ u \in w_clients'[b].subscriptions
             /\ w_progressSubscriptions'[u] = w_progressSubscriptions[u]
             /\ \A k \in Upstreams : HandlersOf(emitters'[k], b) = HandlersOf(emitters[k], b)
             /\ UNCHANGED <<operations, downloads, listeners>>
     /\ \A k \in Upstreams, b \in Clients :
          (/\ stream_data(k)
           /\ w_progressSubscriptions[emitters[k].op] = k
           /\ w_clients[b].state = "open"
           /\ emitters[k].op \in w_clients[b].subscriptions)
          => LET frame == listeners[k].written[emitters[k].delivered + 1]
                 before == Len(w_clients[b].received)
                 after == Len(w_clients'[b].received)
             IN /\ after > before
                /\ \A i \in (before + 1)..after :
                     w_clients'[b].received[i] =
                       Msg("upload-progress", emitters[k].op, frame.status, frame.bytes)]_vars

\* A state C29 is about: client a followed the operation, saw it in progress
\* and disconnected before its end; client b has received its terminal
\* snapshot.
C29_LeaverAndStayer ==
  \E a \in Clients, b \in Clients, u \in WsOpIds :
    LET gotA == ProgressOf(w_clients[a].received, u)
        gotB == ProgressOf(w_clients[b].received, u)
    IN /\ a # b
       /\ w_clients[a].state = "closed"
       /\ gotA # <<>>
       /\ \A i \in 1..Len(gotA) : ~Terminal(gotA[i].status)
       /\ w_clients[b].state = "open"
       /\ \E i \in 1..Len(gotB) : Terminal(gotB[i].status)

\* C30 (subscriber independence at the tracker): whenever the tracker of the
\* S3 / MinIO service publishes a changed record, the step goes through and
\* every listener registered for the operation has the new snapshot written
\* to its call, whatever the other listeners are: unread for long, or ended.
C30_SlowSubscriberHarmless ==
  [][\A id \in OpIds :
       (operations[id] # NoOp /\ operations'[id] # NoOp /\ operations'[id] # operations[id])
       => \A k \in ListenerIds :
            (listeners[k].state = "listening" /\ listeners[k].op = id)
            => listeners'[k].written = Append(listeners[k].written, Snapshot(operations'[id]))]_vars

\* A state C30 is about: of two calls listening for one operation the backend
\* has read nothing from one, which holds at least two frames, and the other
\* call has been written the operation's completed snapshot.
C30_SlowAndServed ==
  \E j \in Upstreams, k \in Upstreams :
    /\ j # k
    /\ listeners[j].state = "listening" /\ listeners[k].state = "listening"
    /\ listeners[j].op = listeners[k].op
    /\ emitters[j].delivered = 0 /\ Len(listeners[j].written) >= 2
    /\ Len(listeners[k].written) >= 2
    /\ listeners[k].written[Len(listeners[k].written)].status = "completed"

\* C31: every subscriber attached to an operation is sent the final
\* pre-terminal snapshot (status in_progress with the last bytes_processed
\* before termination) as well as the terminal one.  Every frame the poller
\* writes after the operation terminated carries the terminal status, so the
\* pre-terminal snapshot has to be among the subscriber's frames when the
\* operation terminates.
C31_FinalSnapshotsPublished ==
  [][\A id \in GOpIds, k \in Subs :
       (/\ g_operations[id].status = "in_progress"
        /\ Terminal(g_operations'[id].status)
        /\ g_subs[k].state = "polling"
        /\ g_subs[k].op = id)
       => \E i \in 1..Len(g_subs'[k].written) :
            g_subs'[k].written[i] =
              [status |-> "in_progress", bytes |-> g_operations[id].bytesProcessed]]_vars

\* C32: initiateUpload of the S3 / MinIO service takes the multipart branch
\* (a provider session under a provider upload id) if and only if the declared
\* file_size is strictly greater than the threshold; at the threshold, at zero
\* and with file_size left out it takes the direct branch (an operation under
\* a direct id, no session); and the mode of a session never changes: at all
\* times an operation under a provider upload id declares more than the
\* threshold, and one under a direct id declares at most the threshold and
\* has no provider session.
C32_MultipartIffAboveThreshold ==
  [][/\ \A r \in InitiateRequests :
          initiateUpload(Defaults(r))
          => IF Defaults(r) > MultipartThreshold
             THEN /\ issued' = issued + 1
                  /\ uploadSessions'[UploadIdSeq[issued']] # NoSession
                  /\ operations'[UploadIdSeq[issued']].bytesTotal = Defaults(r)
             ELSE /\ UNCHANGED <<uploadSessions, issued>>
                  /\ operations'[DirectIdAt(now)].bytesTotal = Defaults(r)
     /\ \A id \in UploadIds \cup {DirectIdAt(t) : t \in 0..MaxClock} :
          operations'[id] # NoOp
          => /\ id \in UploadIds <=> operations'[id].bytesTotal > MultipartThreshold
             /\ HasSession(id)' => id \in UploadIds
             /\ operations[id] # NoOp /\ operations[id].bytesTotal > MultipartThreshold
                  => operations'[id].bytesTotal > MultipartThreshold]_vars

\* C32 witness: a session declared above the threshold is multipart and has
\* taken a part, while a session declared at exactly the threshold is direct.
C32_BothModes ==
  /\ operations["u1"].bytesTotal = MultipartThreshold + 1
  /\ HasSession("u1") /\ uploadSessions["u1"].parts # <<>>
  /\ operations[DirectId] # NoOp
  /\ operations[DirectId].bytesTotal = MultipartThreshold

\* C33: the summary uploadChunk answers with at the end of a stream reports
\* bytes_received equal to the summed payload lengths of the chunks whose
\* ingest succeeded and chunks_received equal to their number (failed chunks
\* are not counted).  The summary takes totalBytesReceived and partNumber of
\* the stream; the accepted chunks are those pushed to the stream's parts, and
\* every payload of the model is one byte long.  Streams with a chunk still in
\* flight are left aside.
C33_SummaryCountsAccepted ==
  [][\A s \in Streams :
       (/\ uploadChunk_end(s)
        /\ streams[s].uploadId # NoId
        /\ \A p \in pending : p.s # s)
       => /\ streams[s].partNumber = Len(streams[s].parts)
          /\ streams[s].totalBytesReceived = Len(streams[s].parts) * Len(Data(1))]_vars

\* C34: in uploadChunk of the S3 / MinIO service the completion triggered by
\* the is_final chunk is issued only after the uploadPart calls of all earlier
\* chunks of the stream have finished: while CompleteMultipartUploadCommand of
\* a stream is under way, no uploadPart of an earlier chunk of that stream is
\* still in flight.
C34_CompletionAfterEarlierParts ==
  \A p \in pending, q \in pending :
    (p.stage = "complete" /\ q.stage = "uploadPart" /\ q.s = p.s)
    => q.partNumber > p.partNumber

\* C35: uploadChunk invokes its response callback exactly once per stream: it
\* is never invoked a second time, and a stream that has ended (with or
\* without an is_final chunk) or has failed has had its callback invoked.
C35_CallbackExactlyOnce ==
  /\ \A s \in Streams :
       /\ g_streams[s].callbacks <= 1
       /\ g_streams[s].state \in {"ended", "error"} => g_streams[s].callbacks = 1
  /\ \A s \in Streams :
       /\ streams[s].callbacks <= 1
       /\ streams[s].state \in {"ended", "error"} => streams[s].callbacks = 1

\* C36: with two uploads in flight on one StorageClient, the promise returned
\* by end() of the stream created by uploadChunks settles with the response
\* (or error) of that same upload's call, never with that of the other upload.
C36_EndSettlesWithOwnResponse ==
  \A i \in ClientUploads :
    storageClient.calls[i].promise.state \in {"resolved", "rejected"}
    => storageClient.calls[i].promise.of = i

\* C37: a chunk is only ever added to the session named by its own upload_id
\* field: whenever the data handler of the S3 / MinIO service sends a chunk
\* that names an upload to the store, counts it or publishes progress for it,
\* it does so under the upload id the chunk carries.
C37_ChunkGoesToItsOwnSession ==
  [][\A s \in Streams, chunk \in Chunks(issued) :
       (/\ uploadChunk_data(s, chunk)
        /\ chunk.upload_id # NoId
        /\ pending' # pending)
       => \A p \in pending' \ pending : streams'[p.s].uploadId = chunk.upload_id]_vars

\* C38: on one WebSocket connection of the heartbeat service, subscribing to
\* the same session more than once (twice, or again after an unsubscribe)
\* leaves at most one upstream progress stream being forwarded to the client
\* for that session: at most one live emitter of the StorageClient for the
\* session carries forwarding listeners of the client.
C38_OneUpstreamPerSession ==
  \A c \in Clients, u \in WsOpIds :
    Cardinality({k \in Upstreams : /\ emitters[k].op = u
                                   /\ ~emitters[k].ended
                                   /\ HandlersOf(emitters[k], c) # <<>>}) <= 1

\* C39: after the shared-emitter service has sent `unsubscribed` for an
\* operation to a client, the client receives no further progress message for
\* the operation unless it subscribes again, also while other clients remain
\* subscribed: a progress event of the operation's stream adds nothing to the
\* messages of an open client that is not subscribed to the operation.
C39_NoProgressAfterUnsubscribed ==
  [][\A k \in Upstreams, c \in Clients :
       (/\ stream_data(k)
        /\ w_clients[c].state = "open"
        /\ emitters[k].op \notin w_clients[c].subscriptions)
       => w_clients'[c].received = w_clients[c].received]_vars

\* C40: a connection of the heartbeat service that has answered every ping
\* with a pong before the next heartbeat tick (no ping of it is unanswered) is
\* not terminated by the heartbeat and stays in the client map for as long as
\* it stays connected: no step other than its own disconnect takes it out.
C40_AnsweringClientKept ==
  [][\A c \in Clients :
       (/\ clients[c].state = "open"
        /\ clients[c].pings = 0
        /\ ~handleDisconnect(c))
       => clients'[c].state = "open"]_vars

\* C40 witness: a connection that has answered two pings has been pinged a
\* third time and is still in the map.
C40_AnsweredAndKept ==
  \E c \in Clients :
    /\ clients[c].state = "open"
    /\ clients[c].pongs = MaxPongs
    /\ clients[c].pings = 1
    /\ ~clients[c].isAlive

====
